---- MODULE Spec2Model ----
(***************************************************************************)
(* State-machine model of autoops-ai's persistent historical store         *)
(* (src/tools/memory_store.py, class MemoryStore) and of the statistics   *)
(* of src/tools/stats_tools.py (class StatsTools): trend, anomalies,       *)
(* correlation matrix and basic statistics; and of the store calls of      *)
(* MemoryAgent.execute (src/agents/memory_agent.py).                       *)
(*                                                                         *)
(* Time.  datetime.now() is modelled by the variable clock, a day of the   *)
(* month and a second of that day.  All dates of one behaviour lie in one  *)
(* month, so a zero-padded YYYY-MM-DD string is represented by its day of  *)
(* the month and the lexicographic comparison of two such strings is the   *)
(* comparison of the two day numbers.                                      *)
(*                                                                         *)
(* Optional values.  Python's None is the empty sequence <<>> and a        *)
(* present value v is <<v>>.                                               *)
(***************************************************************************)
EXTENDS Integers, Sequences, FiniteSets, TLC

(***************************************************************************)
(* Bounds of the model.                                                    *)
(***************************************************************************)
MaxDay == 2
MaxSec == 1
MaxCalls == 3
MaxKpiCalls == 2
MaxIdCalls == 4
MaxInsightCalls == 102
MaxThreadCalls == 3
MaxRows == 3
MaxKeep == 1
MaxLookback == 2
MaxN == 2
MaxPoints == 26
MaxMotif == 4
MaxConstructCalls == 2
MaxStoreCalls == 2
MaxFairCalls == 3
MaxSeries == 9
MaxBootCalls == 2
MaxRuns == 2
MaxHypotheses == 4

(***************************************************************************)
(* Program constants.                                                      *)
(***************************************************************************)
INSIGHT_CAP == 100
\* self.z_threshold = 3.0, self.iqr_multiplier = 1.5 (twice it: 3), and the
\* length anomalies[:10] keeps.
Z_THRESHOLD == 3
IQR_MULTIPLIER_X2 == 3
DETAIL_CAP == 10
RECENT_SPAN == 7
\* days_to_keep of clear_old_data when the caller gives none.
DEFAULT_DAYS_TO_KEEP == 90
\* lookback_days of the comparison MemoryAgent.execute asks for.
AGENT_LOOKBACK == 30
\* MemoryAgent.execute stores hypotheses[:3].
KEY_HYPOTHESES == 3
\* The length correlations[:5] keeps.
TOP_N == 5

VARIABLES
  file,      \* the parsed content of memory_file (the backing JSON document)
  clock,     \* datetime.now(): [day, sec]
  last,      \* the most recent call: [op, arg, ok, ret]
  ncalls,    \* number of mutating calls made so far
  budget,    \* number of mutating calls the caller makes in all
  issued,    \* the session ids store_session has returned, in order
  inserted,  \* the insights store_insight has appended, in order
  threads,   \* per thread: where it is in the handler it runs, and its locals
  locks,     \* per store handle: the thread that holds self.lock, if any
  table,     \* the observation table handed to StatsTools: rows [date, value]
  agent      \* MemoryAgent.execute: its inputs, its position and its results

vars == <<file, clock, last, ncalls, budget, issued, inserted, threads, locks, table,
          agent>>

\* Left alone by a caller that runs every handler to completion.
concvars == <<threads, locks>>

(***************************************************************************)
(* Input domains.                                                          *)
(***************************************************************************)
Dates == 1..MaxDay
Kpis == {"Revenue", "Profit"}
Keeps == 0..MaxKeep
Lookbacks == (0 - 1)..MaxLookback
Ns == (0 - 1)..MaxN

\* A session payload (session_data).  kind "list" is a dict of JSON-native
\* values, kind "tuple" is the same dict holding a tuple where "list" holds a
\* list, kind "object" holds a value json.dump cannot serialize.
Payloads ==
  { [kind |-> "list", v |-> 1], [kind |-> "tuple", v |-> 2],
    [kind |-> "object", v |-> 3] }

\* The KPI dicts passed to store_kpi_snapshot, and held by batches.
KpiDicts ==
  { [k \in {"Revenue"} |-> 10],
    [k \in {"Profit"} |-> 0 - 10],
    [k \in {"Revenue", "Profit"} |-> IF k = "Revenue" THEN 20 ELSE 10] }

\* The batches passed to store_kpi_snapshots_batch: date -> KPI dict.
Batches ==
  { [d \in {1} |-> [k \in {"Profit"} |-> 0 - 10]],
    [d \in {1, 2} |-> [k \in {"Revenue"} |-> 10 * d]],
    [d \in {2} |-> [k \in {"Revenue", "Profit"} |-> IF k = "Revenue" THEN 10 ELSE 0 - 30]],
    [d \in {} |-> [k \in {} |-> 0]] }

\* The current KPI values passed to compare_with_history.
CurrentKpis ==
  { [k \in {"Revenue"} |-> 15],
    [k \in {"Profit"} |-> 0 - 5],
    [k \in {"Revenue", "Profit"} |-> IF k = "Revenue" THEN 0 ELSE 5] }

\* The threads of the process, and the MemoryStore objects constructed on the
\* one memory_file.
Threads == {"t1", "t2"}
Handles == {"h1", "h2"}

InsightTexts == {1, 2}
Categories == {"hypothesis", "memory"}

(***************************************************************************)
(* Python helpers.                                                         *)
(***************************************************************************)
None == <<>>
Some(v) == <<v>>

Min(a, b) == IF a < b THEN a ELSE b
Max(a, b) == IF a > b THEN a ELSE b
Abs(a) == IF a < 0 THEN 0 - a ELSE a

\* s[-n:] for a list s and an integer n (n = 0 gives s[0:], the whole list;
\* a negative n gives s[|n|:]).
PyTail(s, n) ==
  LET len == Len(s)
      start == IF n > 0 THEN Max(len - n, 0) ELSE Min(0 - n, len)
  IN  SubSeq(s, start + 1, len)

\* s[:n] for a list s and an integer n (a negative n drops the last |n|).
PyHead(s, n) ==
  LET len == Len(s)
      stop == IF n >= 0 THEN Min(n, len) ELSE Max(len + n, 0)
  IN  SubSeq(s, 1, stop)

\* dict.update: the keys of b overwrite or extend those of a.
DictUpdate(a, b) ==
  [k \in (DOMAIN a) \cup (DOMAIN b) |-> IF k \in DOMAIN b THEN b[k] ELSE a[k]]

\* {k: v for k, v in a.items() if k in keep}
DictRestrict(a, keep) == [k \in (DOMAIN a) \cap keep |-> a[k]]

RECURSIVE SortedDesc(_)
\* sorted(S, reverse=True) for a set of day numbers.
SortedDesc(S) ==
  IF S = {} THEN <<>>
  ELSE LET m == CHOOSE x \in S : \A y \in S : y <= x
       IN  <<m>> \o SortedDesc(S \ {m})

RECURSIVE SumSeq(_)
SumSeq(s) == IF s = <<>> THEN 0 ELSE Head(s) + SumSeq(Tail(s))

\* round(num/den, 2) in hundredths, for den > 0: the nearest hundredth, a tie
\* going to the even one (float representation error is not modelled).
Round2(num, den) ==
  LET n == Abs(num) * 100
      q == n \div den
      r == n % den
      up == (2 * r > den) \/ (2 * r = den /\ q % 2 = 1)
      mag == IF up THEN q + 1 ELSE q
  IN  IF num < 0 THEN 0 - mag ELSE mag

(***************************************************************************)
(* The backing document.                                                   *)
(***************************************************************************)
initialize_memory(now) ==
  [ valid |-> TRUE,
    sessions |-> <<>>,
    kpi_history |-> <<>>,
    insights |-> <<>>,
    metadata |-> [created_at |-> now, total_sessions |-> 0, last_updated |-> None] ]

\* A file whose content json.load cannot parse.
CorruptFile ==
  [ valid |-> FALSE,
    sessions |-> <<>>,
    kpi_history |-> <<>>,
    insights |-> <<>>,
    metadata |-> [created_at |-> [day |-> 0, sec |-> 0], total_sessions |-> 0,
                  last_updated |-> None] ]

\* No file at the path memory_file.
NoFile == [valid |-> FALSE, exists |-> FALSE]

\* Files that hold JSON which is not the document the store writes: the
\* object {}, a document without kpi_history and insights, and a document
\* without metadata.
PartialFiles ==
  { [valid |-> TRUE],
    [valid |-> TRUE, sessions |-> <<>>,
     metadata |-> [created_at |-> [day |-> 1, sec |-> 0], total_sessions |-> 0,
                   last_updated |-> None]],
    [valid |-> TRUE, sessions |-> <<>>, kpi_history |-> <<>>, insights |-> <<>>] }

\* The keys of the document a handler subscripts before it writes the file
\* (a mutating handler reads memory['metadata'] in _save_memory at the
\* latest); a key that is missing raises KeyError.
KeysRead(op, arg) ==
  CASE op = "store_session" -> {"sessions", "metadata"}
    [] op = "store_kpi_snapshot" -> {"kpi_history", "metadata"}
    [] op = "store_kpi_snapshots_batch" ->
         IF DOMAIN arg = {} THEN {"metadata"} ELSE {"kpi_history", "metadata"}
    [] op = "store_insight" -> {"insights", "metadata"}
    [] op = "clear_old_data" -> {"kpi_history", "sessions", "insights", "metadata"}
    [] op = "get_recent_sessions" -> {"sessions"}
    [] op = "get_kpi_history" -> {"kpi_history"}
    [] op = "get_insights" -> {"insights"}
    [] op = "get_memory_stats" -> {"metadata", "insights", "kpi_history"}
    [] OTHER -> {}

\* The exception _load_memory or a subscript raises on the file, if any.
LoadError(op, arg) ==
  IF file = NoFile THEN Some("FileNotFoundError")
  ELSE IF ~file.valid THEN Some("JSONDecodeError")
  ELSE IF ~(KeysRead(op, arg) \subseteq DOMAIN file) THEN Some("KeyError")
  ELSE None

\* What json.dump writes for a payload: a tuple is written as a list.
JsonValue(data) == IF data.kind = "tuple" THEN [data EXCEPT !.kind = "list"] ELSE data

Serializable(memory) ==
  \A i \in DOMAIN memory.sessions : memory.sessions[i].data.kind # "object"

\* json.dump(memory, f): the content the file holds afterwards.  A value
\* that cannot be serialized raises TypeError after the file was truncated
\* and partly written.
json_dump(memory) ==
  IF Serializable(memory)
  THEN [memory EXCEPT !.sessions =
          [i \in DOMAIN memory.sessions |->
             [memory.sessions[i] EXCEPT !.data = JsonValue(@)]]]
  ELSE CorruptFile

\* A save that leaves the time of the last update as it was.
stamp_last_updated_skipped(memory, now) == memory

\* memory['metadata']['last_updated'] = datetime.now().isoformat()
stamp_last_updated(memory, now) == [memory EXCEPT !.metadata.last_updated = Some(now)]

\* _save_memory: stamp last_updated, rewrite the whole file.
save_memory(memory, now) == json_dump(stamp_last_updated(memory, now))

(***************************************************************************)
(* The mutations the handlers apply to the loaded document.                *)
(***************************************************************************)
\* f"session_{len(memory['sessions']) + 1}_{now:%Y%m%d_%H%M%S}": the pair of
\* the number and the second determines the string and the string the pair.
new_session_id(memory, now) == <<Len(memory.sessions) + 1, now.day, now.sec>>

\* A session list that holds the new record alone.
store_session_replacing(memory, session_data, now) ==
  [memory EXCEPT
     !.sessions = <<[session_id |-> new_session_id(memory, now),
                     timestamp |-> now,
                     data |-> session_data]>>,
     !.metadata.total_sessions = @ + 1]

store_session(memory, session_data, now) ==
  [memory EXCEPT
     !.sessions = Append(@, [session_id |-> new_session_id(memory, now),
                             timestamp |-> now,
                             data |-> session_data]),
     !.metadata.total_sessions = @ + 1]

store_kpi_snapshot(memory, date, kpis) ==
  LET old == IF date \in DOMAIN memory.kpi_history
             THEN memory.kpi_history[date] ELSE <<>>
  IN  [memory EXCEPT
         !.kpi_history = DictUpdate(@, [d \in {date} |-> DictUpdate(old, kpis)])]

\* A batch of which only the earliest date is stored.
store_kpi_snapshots_batch_first(memory, snapshots) ==
  IF DOMAIN snapshots = {} THEN memory
  ELSE LET d == CHOOSE d \in DOMAIN snapshots : \A e \in DOMAIN snapshots : d <= e
       IN  [memory EXCEPT
              !.kpi_history =
                 DictUpdate(@, [e \in {d} |->
                    DictUpdate(IF d \in DOMAIN @ THEN @[d] ELSE <<>>, snapshots[d])])]

\* A batch that replaces the whole entry of each of its dates.
store_kpi_snapshots_batch_overwrite(memory, snapshots) ==
  [memory EXCEPT !.kpi_history = DictUpdate(@, snapshots)]

store_kpi_snapshots_batch(memory, snapshots) ==
  [memory EXCEPT
     !.kpi_history =
        [d \in (DOMAIN @) \cup (DOMAIN snapshots) |->
           IF d \in DOMAIN snapshots
           THEN DictUpdate(IF d \in DOMAIN @ THEN @[d] ELSE <<>>, snapshots[d])
           ELSE @[d]]]

\* An insight list that is never truncated.
store_insight_uncapped(memory, insight, now) ==
  [memory EXCEPT
     !.insights = Append(@, [category |-> insight.category, text |-> insight.text,
                             timestamp |-> now])]

store_insight(memory, insight, now) ==
  LET stamped == [category |-> insight.category, text |-> insight.text,
                  timestamp |-> now]
      all == Append(memory.insights, stamped)
  IN  [memory EXCEPT
         !.insights = IF Len(all) > INSIGHT_CAP THEN PyTail(all, INSIGHT_CAP) ELSE all]

\* A cutoff that is computed whatever the day.
CutoffValid_always(now, days_to_keep) == TRUE

\* cutoff_date.replace(day=cutoff_date.day - days_to_keep) raises ValueError
\* unless the new day is a day of the current month.
CutoffValid(now, days_to_keep) == now.day - days_to_keep >= 1

clear_old_data(memory, now, days_to_keep) ==
  LET cutoff == now.day - days_to_keep
  IN  [memory EXCEPT
         !.kpi_history = DictRestrict(@, {d \in DOMAIN @ : d >= cutoff}),
         !.sessions = SelectSeq(@, LAMBDA s : s.timestamp.day >= cutoff),
         !.insights = SelectSeq(@, LAMBDA i : i.timestamp.day >= cutoff)]

(***************************************************************************)
(* The reads.                                                              *)
(***************************************************************************)
\* The first n sessions instead of the last n.
get_recent_sessions_oldest(memory, n) == PyHead(memory.sessions, n)

get_recent_sessions(memory, n) == PyTail(memory.sessions, n)

\* The dates that hold kpi_name, most recent first, cut to the first `days`.
RecentDates(memory, kpi_name, days) ==
  PyHead(SortedDesc({d \in DOMAIN memory.kpi_history :
                       kpi_name \in DOMAIN memory.kpi_history[d]}), days)

get_kpi_history(memory, kpi_name, days) ==
  LET ds == RecentDates(memory, kpi_name, days)
  IN  [i \in DOMAIN ds |-> <<ds[i], memory.kpi_history[ds[i]][kpi_name]>>]

get_insights(memory, category, n) ==
  PyTail(IF category = None THEN memory.insights
         ELSE SelectSeq(memory.insights, LAMBDA i : i.category = category[1]), n)

HasHistory(memory, kpi_name) ==
  \E d \in DOMAIN memory.kpi_history : kpi_name \in DOMAIN memory.kpi_history[d]

\* The historical values compare_with_history averages for one KPI.
HistoricalValues(memory, kpi_name, lookback_days) ==
  LET ds == RecentDates(memory, kpi_name, lookback_days)
  IN  [i \in DOMAIN ds |-> memory.kpi_history[ds[i]][kpi_name]]

\* sum(historical_values) / len(historical_values) raises ZeroDivisionError
\* when the slice of the sorted dates is empty.
CompareRaises(memory, current_kpis, lookback_days) ==
  \E k \in DOMAIN current_kpis :
    /\ HasHistory(memory, k)
    /\ HistoricalValues(memory, k, lookback_days) = <<>>

\* change / avg_historical * 100 if avg_historical != 0 else 0, as the
\* fraction num/den of integers with den > 0; avg = total/count and
\* change = (current * count - total)/count.
ChangePct(current, total, count) ==
  IF total = 0 THEN [num |-> 0, den |-> 1]
  ELSE IF total > 0
       THEN [num |-> (current * count - total) * 100, den |-> total]
       ELSE [num |-> 0 - (current * count - total) * 100, den |-> 0 - total]

\* An entry that reports zeros where there is no history.
Comparison_zeros(memory, kpi_name, current_value, lookback_days) ==
  [ current |-> current_value,
    historical_avg |-> Some(0),
    change |-> Some(0),
    change_pct |-> Some(0),
    data_points |-> 0 ]

\* One entry of the comparison; the rounded numbers are in hundredths.
Comparison(memory, kpi_name, current_value, lookback_days) ==
  IF HasHistory(memory, kpi_name)
  THEN LET vals == HistoricalValues(memory, kpi_name, lookback_days)
           total == SumSeq(vals)
           count == Len(vals)
           pct == ChangePct(current_value, total, count)
       IN  [ current |-> current_value,
             historical_avg |-> Some(Round2(total, count)),
             change |-> Some(Round2(current_value * count - total, count)),
             change_pct |-> Some(Round2(pct.num, pct.den)),
             data_points |-> count ]
  ELSE [ current |-> current_value,
         historical_avg |-> None,
         change |-> None,
         change_pct |-> None,
         data_points |-> 0 ]

compare_with_history(memory, current_kpis, lookback_days) ==
  [k \in DOMAIN current_kpis |-> Comparison(memory, k, current_kpis[k], lookback_days)]

\* The statistics with the sessions held counted in place of the counter.
get_memory_stats_held(memory) ==
  [ total_sessions |-> Len(memory.sessions),
    total_insights |-> Len(memory.insights),
    kpi_dates_tracked |-> Cardinality(DOMAIN memory.kpi_history),
    created_at |-> memory.metadata.created_at,
    last_updated |-> memory.metadata.last_updated ]

get_memory_stats(memory) ==
  [ total_sessions |-> memory.metadata.total_sessions,
    total_insights |-> Len(memory.insights),
    kpi_dates_tracked |-> Cardinality(DOMAIN memory.kpi_history),
    created_at |-> memory.metadata.created_at,
    last_updated |-> memory.metadata.last_updated ]

(***************************************************************************)
(* The store used by one caller: every handler runs to completion.         *)
(***************************************************************************)
StartOfTime == [day |-> 1, sec |-> 0]

\* A thread that runs no handler.  loads and persists count the calls of
\* _load_memory and of _save_memory the handler it runs has made.
Idle == [pc |-> "idle", handle |-> None, op |-> "", arg |-> None, memory |-> None,
         ret |-> None, loads |-> 0, persists |-> 0]

\* The results dict of MemoryAgent.execute as it is first built.
NoResults ==
  [ session_stored |-> FALSE, kpis_stored |-> FALSE, historical_comparison |-> <<>>,
    insights_stored |-> <<>>, session_id |-> None, memory_stats |-> None ]

\* A MemoryAgent that is not executing: step is the position in the
\* sequence of store calls of execute (0 outside execute), runs the number
\* of calls of execute so far.
NoAgent == [step |-> 0, runs |-> 0, df |-> None, hypotheses |-> <<>>,
            results |-> NoResults]

\* The state after MemoryStore(memory_file) was constructed on a path that
\* held no file.
Constructed(calls) ==
  /\ clock = StartOfTime
  /\ file = initialize_memory(StartOfTime)
  /\ last = [op |-> "init", arg |-> None, ok |-> TRUE, ret |-> None]
  /\ ncalls = 0
  /\ budget = calls
  /\ issued = <<>>
  /\ inserted = <<>>
  /\ threads = [t \in Threads |-> Idle]
  /\ locks = [h \in Handles |-> None]
  /\ table = <<>>
  /\ agent = NoAgent

Init == Constructed(MaxCalls)

Failed(op, arg, error) == [op |-> op, arg |-> arg, ok |-> FALSE, ret |-> error]
Returned(op, arg, ret) == [op |-> op, arg |-> arg, ok |-> TRUE, ret |-> ret]

\* A handler that loads, applies `mutated` and saves; `ret` is what it returns.
\* _load_memory raises when the file is missing or does not parse, a
\* subscript raises when a key is missing, and nothing is written;
\* json.dump raises after the file was opened for writing.
Persist(op, arg, mutated, ret) ==
  /\ ncalls < budget
  /\ ncalls' = ncalls + 1
  /\ UNCHANGED <<clock, budget, concvars, table>>
  /\ IF LoadError(op, arg) # None
     THEN /\ file' = file
          /\ last' = Failed(op, arg, LoadError(op, arg)[1])
     ELSE /\ file' = save_memory(mutated, clock)
          /\ last' = IF file'.valid THEN Returned(op, arg, ret)
                     ELSE Failed(op, arg, "TypeError")

\* The handler called by a caller other than MemoryAgent.execute.
Mutate(op, arg, mutated, ret) == Persist(op, arg, mutated, ret) /\ UNCHANGED agent

StoreSession(session_data) ==
  /\ Mutate("store_session", session_data,
            store_session(file, session_data, clock), new_session_id(file, clock))
  /\ issued' = IF last'.ok THEN Append(issued, last'.ret) ELSE issued
  /\ inserted' = inserted

StoreKpiSnapshot(date, kpis) ==
  /\ Mutate("store_kpi_snapshot", <<date, kpis>>,
            store_kpi_snapshot(file, date, kpis), None)
  /\ UNCHANGED <<issued, inserted>>

StoreKpiSnapshotsBatch(snapshots) ==
  /\ Mutate("store_kpi_snapshots_batch", snapshots,
            store_kpi_snapshots_batch(file, snapshots), None)
  /\ UNCHANGED <<issued, inserted>>

StoreInsight(insight) ==
  /\ Mutate("store_insight", insight, store_insight(file, insight, clock), None)
  /\ inserted' = IF last'.ok
                 THEN Append(inserted, [category |-> insight.category,
                                        text |-> insight.text, timestamp |-> clock])
                 ELSE inserted
  /\ issued' = issued

ClearOldData(days_to_keep) ==
  /\ IF file.valid /\ ~CutoffValid(clock, days_to_keep)
     THEN /\ ncalls < budget
          /\ ncalls' = ncalls + 1
          /\ last' = Failed("clear_old_data", days_to_keep, "ValueError")
          /\ UNCHANGED <<file, clock, budget, concvars, table, agent>>
     ELSE Mutate("clear_old_data", days_to_keep,
                 clear_old_data(file, clock, days_to_keep), None)
  /\ UNCHANGED <<issued, inserted>>

\* A handler that loads and returns `ret` without writing.
Fetch(op, arg, ret) ==
  /\ last' = IF LoadError(op, arg) = None THEN Returned(op, arg, ret)
             ELSE Failed(op, arg, LoadError(op, arg)[1])
  /\ UNCHANGED <<file, clock, ncalls, budget, issued, inserted, concvars, table>>

\* The handler called by a caller other than MemoryAgent.execute.
Read(op, arg, ret) == Fetch(op, arg, ret) /\ UNCHANGED agent

GetRecentSessions(n) ==
  Read("get_recent_sessions", n, get_recent_sessions(file, n))

GetKpiHistory(kpi_name, days) ==
  Read("get_kpi_history", <<kpi_name, days>>, get_kpi_history(file, kpi_name, days))

GetInsights(category, n) ==
  Read("get_insights", <<category, n>>, get_insights(file, category, n))

Compare(current_kpis, lookback_days) ==
  /\ last' = IF ~file.valid
             THEN Failed("compare_with_history", <<current_kpis, lookback_days>>,
                         "JSONDecodeError")
             ELSE IF CompareRaises(file, current_kpis, lookback_days)
             THEN Failed("compare_with_history", <<current_kpis, lookback_days>>,
                         "ZeroDivisionError")
             ELSE Returned("compare_with_history", <<current_kpis, lookback_days>>,
                           compare_with_history(file, current_kpis, lookback_days))
  /\ UNCHANGED <<file, clock, ncalls, budget, issued, inserted, concvars, table>>

CompareWithHistory(current_kpis, lookback_days) ==
  Compare(current_kpis, lookback_days) /\ UNCHANGED agent

GetMemoryStats ==
  Read("get_memory_stats", None, get_memory_stats(file))

TickSec ==
  /\ clock.sec < MaxSec
  /\ clock' = [clock EXCEPT !.sec = @ + 1]
  /\ UNCHANGED <<file, last, ncalls, budget, issued, inserted, concvars, table, agent>>

TickDay ==
  /\ clock.day < MaxDay
  /\ clock' = [day |-> clock.day + 1, sec |-> 0]
  /\ UNCHANGED <<file, last, ncalls, budget, issued, inserted, concvars, table, agent>>

\* The insight and the snapshot the session-centred caller stores.
AnInsight == [category |-> "hypothesis", text |-> 1]
ASnapshot == [k \in {"Revenue"} |-> 10]

\* A caller that stores and reads sessions, between the other writes.
Next ==
  \/ \E p \in Payloads : StoreSession(p)
  \/ StoreKpiSnapshot(1, ASnapshot)
  \/ StoreInsight(AnInsight)
  \/ \E k \in Keeps : ClearOldData(k)
  \/ \E n \in Ns : GetRecentSessions(n)
  \/ GetMemoryStats
  \/ TickSec
  \/ TickDay

Spec == Init /\ [][Next]_vars

\* MemoryStore(memory_file), memory_file given by its directory part and
\* its file name: a file that exists is left alone; otherwise
\* os.makedirs(os.path.dirname(memory_file)) creates the directory, raising
\* FileNotFoundError when the directory part is empty, and the initial
\* document is written.
Construct(memory_file) ==
  /\ IF file # NoFile
     THEN /\ file' = file
          /\ last' = Returned("init", memory_file, None)
     ELSE IF memory_file.dirname = ""
     THEN /\ file' = file
          /\ last' = Failed("init", memory_file, "FileNotFoundError")
     ELSE /\ file' = initialize_memory(clock)
          /\ last' = Returned("init", memory_file, None)
  /\ UNCHANGED <<clock, ncalls, budget, issued, inserted, concvars, table, agent>>

\* Two names of the one file: with a directory part and without.
MemoryFiles ==
  { [dirname |-> "memory", basename |-> "long_term_memory.json"],
    [dirname |-> "", basename |-> "long_term_memory.json"] }

\* The files a store may be constructed on.
FilesFound == {NoFile, CorruptFile, initialize_memory(StartOfTime)} \cup PartialFiles

\* A caller that constructs stores on a path and uses them.
InitConstruct ==
  /\ clock = StartOfTime
  /\ file \in FilesFound
  /\ last = [op |-> "none", arg |-> None, ok |-> TRUE, ret |-> None]
  /\ ncalls = 0
  /\ budget = MaxConstructCalls
  /\ issued = <<>>
  /\ inserted = <<>>
  /\ threads = [t \in Threads |-> Idle]
  /\ locks = [h \in Handles |-> None]
  /\ table = <<>>
  /\ agent = NoAgent

NextConstruct ==
  \/ \E f \in MemoryFiles : Construct(f)
  \/ StoreSession([kind |-> "list", v |-> 1])
  \/ StoreKpiSnapshot(1, ASnapshot)
  \/ \E b \in Batches : StoreKpiSnapshotsBatch(b)
  \/ StoreInsight(AnInsight)
  \/ \E k \in Keeps : ClearOldData(k)
  \/ GetRecentSessions(1)
  \/ GetMemoryStats
  \/ TickSec

SpecConstruct == InitConstruct /\ [][NextConstruct]_vars

\* A caller that uses every operation of the store.
InitStore == Constructed(MaxStoreCalls)

NextStore ==
  \/ \E p \in Payloads : StoreSession(p)
  \/ StoreKpiSnapshot(1, ASnapshot)
  \/ \E b \in Batches : StoreKpiSnapshotsBatch(b)
  \/ StoreInsight(AnInsight)
  \/ \E k \in Keeps : ClearOldData(k)
  \/ GetRecentSessions(1)
  \/ \E k \in Kpis : GetKpiHistory(k, 1)
  \/ GetInsights(None, 1)
  \/ \E cur \in CurrentKpis : CompareWithHistory(cur, 1)
  \/ GetMemoryStats
  \/ TickSec
  \/ TickDay

SpecStore == InitStore /\ [][NextStore]_vars

\* A caller that stores KPI snapshots and compares against them.
InitKpi == Constructed(MaxKpiCalls)

NextKpi ==
  \/ \E d \in Dates, kd \in KpiDicts : StoreKpiSnapshot(d, kd)
  \/ \E b \in Batches : StoreKpiSnapshotsBatch(b)
  \/ \E k \in Keeps : ClearOldData(k)
  \/ \E k \in Kpis, n \in Lookbacks : GetKpiHistory(k, n)
  \/ \E cur \in CurrentKpis, n \in Lookbacks : CompareWithHistory(cur, n)
  \/ TickDay

SpecKpi == InitKpi /\ [][NextKpi]_vars

\* A caller that stores sessions and trims the store.
InitIds == Constructed(MaxIdCalls)

NextIds ==
  \/ StoreSession([kind |-> "list", v |-> 1])
  \/ \E k \in Keeps : ClearOldData(k)
  \/ GetRecentSessions(1)
  \/ TickSec
  \/ TickDay

SpecIds == InitIds /\ [][NextIds]_vars

\* A caller that stores one insight after another, the k-th carrying text k.
InitInsights == Constructed(MaxInsightCalls)

NextInsights ==
  \/ StoreInsight([category |-> "hypothesis", text |-> Len(inserted) + 1])
  \/ GetInsights(None, 10)
  \/ GetMemoryStats

SpecInsights == InitInsights /\ [][NextInsights]_vars

(***************************************************************************)
(* MemoryAgent.execute on the store it constructed: a step is one call of  *)
(* the store, made in the order of the statements of execute; an exception *)
(* of the store leaves execute.                                            *)
(***************************************************************************)
\* kpi_columns of _calculate_current_kpis, and the keys of every snapshot.
KpiColumns == {"Revenue", "Customers", "Conversion_Rate", "Marketing_Spend"}

\* The cleaned tables (df): the columns they hold besides Date, and their
\* rows.  The column means are whole numbers.
Frames ==
  { [ columns |-> {"Revenue"},
      rows |-> << [Date |-> 1, values |-> [c \in {"Revenue"} |-> 10]] >> ],
    [ columns |-> {"Revenue", "Customers"},
      rows |-> << [Date |-> 1, values |-> [c \in {"Revenue", "Customers"} |->
                                              IF c = "Revenue" THEN 10 ELSE 4]],
                  [Date |-> 2, values |-> [c \in {"Revenue", "Customers"} |->
                                              IF c = "Revenue" THEN 30 ELSE 6]] >> ] }

\* root_cause_results['hypotheses']: the i-th hypothesis is the text i.
HypothesisLists == { [i \in 1..n |-> i] : n \in 0..MaxHypotheses }

\* _calculate_current_kpis: the mean of each KPI column the table holds.
calculate_current_kpis(df) ==
  [c \in df.columns \cap KpiColumns |->
     SumSeq([i \in DOMAIN df.rows |-> df.rows[i].values[c]]) \div Len(df.rows)]

\* kpi_snapshots: per date the four KPI keys, 0 for a column the table does
\* not hold; a later row of a date replaces an earlier one.
kpi_snapshots(df) ==
  LET dates == {df.rows[i].Date : i \in DOMAIN df.rows}
      row(d) == df.rows[CHOOSE i \in DOMAIN df.rows :
                          /\ df.rows[i].Date = d
                          /\ \A j \in DOMAIN df.rows : df.rows[j].Date = d => j <= i]
  IN  [d \in dates |->
         [c \in KpiColumns |-> IF c \in df.columns THEN row(d).values[c] ELSE 0]]

\* session_data: the KPIs and the first three hypotheses, JSON-native values.
session_data(df, hypotheses) ==
  [kind |-> "list",
   v |-> [kpis |-> calculate_current_kpis(df),
          key_hypotheses |-> PyHead(hypotheses, KEY_HYPOTHESES)]]

\* The store calls of execute in an order that stores the snapshots first.
AgentOrder_snapshots_first ==
  << "store_kpi_snapshots_batch", "compare_with_history", "store_session",
     "store_insight", "get_memory_stats" >>

\* The store calls of execute, in the order of its statements.
AgentOrder ==
  << "compare_with_history", "store_session", "store_kpi_snapshots_batch",
     "store_insight", "get_memory_stats" >>

\* The position after the call at position i is done: the loop over
\* hypotheses[:3] makes no call when there is no hypothesis, and execute
\* returns (position 0) after the last call.
AfterStep(i, hypotheses) ==
  LET j == IF i + 1 <= Len(AgentOrder) /\ AgentOrder[i + 1] = "store_insight"
              /\ hypotheses = <<>>
           THEN i + 2 ELSE i + 1
  IN  IF j > Len(AgentOrder) THEN 0 ELSE j

\* The store calls execute makes in all runs.
AgentCalls == MaxRuns * (2 + KEY_HYPOTHESES)

\* execute(df, trend_results, root_cause_results) is called.
Execute(df, hypotheses) ==
  /\ agent.step = 0
  /\ agent.runs < MaxRuns
  /\ agent' = [step |-> AfterStep(0, hypotheses), runs |-> agent.runs + 1,
               df |-> Some(df), hypotheses |-> hypotheses, results |-> NoResults]
  /\ UNCHANGED <<file, clock, last, ncalls, budget, issued, inserted, concvars, table>>

\* execute is at the call `op` of the store.
AtCall(op) == agent.step > 0 /\ AgentOrder[agent.step] = op

\* The agent after the store call of this step: `results` when the call
\* returned, out of execute when it raised.
Proceed(results, step) ==
  agent' = IF last'.ok THEN [agent EXCEPT !.step = step, !.results = results]
           ELSE [agent EXCEPT !.step = 0]

ExecuteCompare ==
  /\ AtCall("compare_with_history")
  /\ Compare(calculate_current_kpis(agent.df[1]), AGENT_LOOKBACK)
  /\ Proceed([agent.results EXCEPT !.historical_comparison = last'.ret],
             AfterStep(agent.step, agent.hypotheses))

ExecuteStoreSession ==
  LET data == session_data(agent.df[1], agent.hypotheses)
  IN  /\ AtCall("store_session")
      /\ Persist("store_session", data,
                 store_session(file, data, clock), new_session_id(file, clock))
      /\ issued' = IF last'.ok THEN Append(issued, last'.ret) ELSE issued
      /\ inserted' = inserted
      /\ Proceed([agent.results EXCEPT !.session_stored = TRUE,
                                       !.session_id = Some(last'.ret)],
                 AfterStep(agent.step, agent.hypotheses))

ExecuteStoreSnapshots ==
  LET snapshots == kpi_snapshots(agent.df[1])
  IN  /\ AtCall("store_kpi_snapshots_batch")
      /\ Persist("store_kpi_snapshots_batch", snapshots,
                 store_kpi_snapshots_batch(file, snapshots), None)
      /\ UNCHANGED <<issued, inserted>>
      /\ Proceed([agent.results EXCEPT !.kpis_stored = TRUE],
                 AfterStep(agent.step, agent.hypotheses))

\* One iteration of the loop over hypotheses[:3].
ExecuteStoreInsight ==
  LET key == PyHead(agent.hypotheses, KEY_HYPOTHESES)
      k == Len(agent.results.insights_stored) + 1
      insight_data == [category |-> "hypothesis", text |-> key[k]]
  IN  /\ AtCall("store_insight")
      /\ Persist("store_insight", insight_data,
                 store_insight(file, insight_data, clock), None)
      /\ inserted' = IF last'.ok
                     THEN Append(inserted, [category |-> insight_data.category,
                                            text |-> insight_data.text,
                                            timestamp |-> clock])
                     ELSE inserted
      /\ issued' = issued
      /\ Proceed([agent.results EXCEPT !.insights_stored = Append(@, key[k])],
                 IF k < Len(key) THEN agent.step
                 ELSE AfterStep(agent.step, agent.hypotheses))

ExecuteGetMemoryStats ==
  /\ AtCall("get_memory_stats")
  /\ Fetch("get_memory_stats", None, get_memory_stats(file))
  /\ Proceed([agent.results EXCEPT !.memory_stats = Some(last'.ret)],
             AfterStep(agent.step, agent.hypotheses))

\* A MemoryAgent on a new store, executed run after run.
InitAgent == Constructed(AgentCalls)

NextAgent ==
  \/ \E df \in Frames, hypotheses \in HypothesisLists : Execute(df, hypotheses)
  \/ ExecuteCompare
  \/ ExecuteStoreSession
  \/ ExecuteStoreSnapshots
  \/ ExecuteStoreInsight
  \/ ExecuteGetMemoryStats

SpecAgent == InitAgent /\ [][NextAgent]_vars

(***************************************************************************)
(* The store used by several threads: a handler is a sequence of steps,    *)
(*   with self.lock:  ->  _load_memory  ->  open(memory_file, 'w')         *)
(*                    ->  json.dump     ->  release,                       *)
(* and the steps of different threads interleave.                          *)
(***************************************************************************)
Mutators == {"store_session", "store_kpi_snapshot", "store_kpi_snapshots_batch",
             "store_insight", "clear_old_data"}

\* The calls the threads make.
ThreadCalls ==
  { <<"store_session", [kind |-> "list", v |-> 1]>>,
    <<"store_kpi_snapshot", <<1, ASnapshot>>>>,
    <<"store_kpi_snapshots_batch", [d \in {1, 2} |-> [k \in {"Profit"} |-> 0 - 10 * d]]>>,
    <<"store_kpi_snapshots_batch", [d \in {} |-> [k \in {} |-> 0]]>>,
    <<"store_insight", AnInsight>>,
    <<"clear_old_data", 0>>,
    <<"get_recent_sessions", 1>> }

\* The document a mutating handler writes back, from the one it loaded.
Mutated(op, arg, memory, now) ==
  CASE op = "store_session" -> store_session(memory, arg, now)
    [] op = "store_kpi_snapshot" -> store_kpi_snapshot(memory, arg[1], arg[2])
    [] op = "store_kpi_snapshots_batch" -> store_kpi_snapshots_batch(memory, arg)
    [] op = "store_insight" -> store_insight(memory, arg, now)
    [] op = "clear_old_data" -> clear_old_data(memory, now, arg)

\* What a handler returns, from the document it loaded.
ReturnValue(op, arg, memory, now) ==
  CASE op = "store_session" -> new_session_id(memory, now)
    [] op = "get_recent_sessions" -> get_recent_sessions(memory, arg)
    [] op = "compare_with_history" -> compare_with_history(memory, arg[1], arg[2])
    [] OTHER -> None

\* A thread calls a handler of the store object h.
Invoke(t, h, op, arg) ==
  /\ threads[t].pc = "idle"
  /\ ncalls < budget
  /\ ncalls' = ncalls + 1
  /\ threads' = [threads EXCEPT ![t] =
        [pc |-> "acquire", handle |-> Some(h), op |-> op, arg |-> arg,
         memory |-> None, ret |-> None, loads |-> 0, persists |-> 0]]
  /\ UNCHANGED <<file, clock, last, budget, issued, inserted, locks, table, agent>>

\* with self.lock: the thread proceeds even though another one holds the lock.
Acquire_unguarded(t) ==
  /\ threads[t].pc = "acquire"
  /\ locks' = [locks EXCEPT ![threads[t].handle[1]] = Some(t)]
  /\ threads' = [threads EXCEPT ![t].pc = "load"]
  /\ UNCHANGED <<file, clock, last, ncalls, budget, issued, inserted, table, agent>>

\* with self.lock: the thread waits until the lock of its store object is free.
Acquire(t) ==
  /\ threads[t].pc = "acquire"
  /\ locks[threads[t].handle[1]] = None
  /\ locks' = [locks EXCEPT ![threads[t].handle[1]] = Some(t)]
  /\ threads' = [threads EXCEPT ![t].pc = "load"]
  /\ UNCHANGED <<file, clock, last, ncalls, budget, issued, inserted, table, agent>>

\* An exit that releases the lock on a return only.
Exit_holding(t, outcome) ==
  /\ threads' = [threads EXCEPT ![t] = Idle]
  /\ locks' = IF outcome.ok THEN [locks EXCEPT ![threads[t].handle[1]] = None]
               ELSE locks
  /\ last' = outcome
  /\ issued' = IF outcome.op = "store_session" /\ outcome.ok
               THEN Append(issued, outcome.ret) ELSE issued
  /\ inserted' = IF outcome.op = "store_insight" /\ outcome.ok
                 THEN LET written == threads[t].memory[1].insights
                      IN  Append(inserted, written[Len(written)])
                 ELSE inserted

\* The handler of thread t ends, by a return or by an exception leaving the
\* with block: the lock is released and the outcome is the caller's.
Exit(t, outcome) ==
  /\ threads' = [threads EXCEPT ![t] = Idle]
  /\ locks' = [locks EXCEPT ![threads[t].handle[1]] = None]
  /\ last' = outcome
  /\ issued' = IF outcome.op = "store_session" /\ outcome.ok
               THEN Append(issued, outcome.ret) ELSE issued
  /\ inserted' = IF outcome.op = "store_insight" /\ outcome.ok
                 THEN LET written == threads[t].memory[1].insights
                      IN  Append(inserted, written[Len(written)])
                 ELSE inserted

\* memory = self._load_memory(), and the handler's work on the loaded copy.
Load(t) ==
  LET me == threads[t]
  IN  /\ me.pc = "load"
      /\ UNCHANGED <<file, clock, ncalls, budget, table, agent>>
      /\ IF ~file.valid
         THEN Exit(t, Failed(me.op, me.arg, "JSONDecodeError"))
         ELSE IF me.op = "compare_with_history"
                 /\ CompareRaises(file, me.arg[1], me.arg[2])
         THEN Exit(t, Failed(me.op, me.arg, "ZeroDivisionError"))
         ELSE IF me.op \notin Mutators
         THEN Exit(t, Returned(me.op, me.arg, ReturnValue(me.op, me.arg, file, clock)))
         ELSE IF me.op = "clear_old_data" /\ ~CutoffValid(clock, me.arg)
         THEN Exit(t, Failed(me.op, me.arg, "ValueError"))
         ELSE /\ threads' = [threads EXCEPT ![t] =
                    [me EXCEPT !.pc = "open",
                               !.loads = @ + 1,
                               !.memory = Some(Mutated(me.op, me.arg, file, clock)),
                               !.ret = ReturnValue(me.op, me.arg, file, clock)]]
              /\ UNCHANGED <<last, issued, inserted, locks>>

\* _save_memory up to open(self.memory_file, 'w'), which empties the file.
Open(t) ==
  LET me == threads[t]
  IN  /\ me.pc = "open"
      /\ threads' = [threads EXCEPT ![t] =
            [me EXCEPT !.pc = "dump",
                       !.persists = @ + 1,
                       !.memory = Some(stamp_last_updated(me.memory[1], clock))]]
      /\ file' = CorruptFile
      /\ UNCHANGED <<clock, last, ncalls, budget, issued, inserted, locks, table, agent>>

\* json.dump(memory, f, indent=2), and the return.
Dump(t) ==
  LET me == threads[t]
  IN  /\ me.pc = "dump"
      /\ file' = json_dump(me.memory[1])
      /\ UNCHANGED <<clock, ncalls, budget, table, agent>>
      /\ Exit(t, IF file'.valid THEN Returned(me.op, me.arg, me.ret)
                 ELSE Failed(me.op, me.arg, "TypeError"))

InCycle(t) == threads[t].pc \in {"load", "open", "dump"}

Step(t) == Acquire(t) \/ Load(t) \/ Open(t) \/ Dump(t)

\* Several threads share one store object.
InitThreads == Constructed(MaxThreadCalls)

NextThreads ==
  \E t \in Threads :
    \/ \E c \in ThreadCalls : Invoke(t, "h1", c[1], c[2])
    \/ Step(t)

SpecThreads == InitThreads /\ [][NextThreads]_vars

\* Each thread has a store object of its own, on the same memory_file.
HandleOf(t) == IF t = "t1" THEN "h1" ELSE "h2"

NextHandles ==
  \E t \in Threads :
    \/ \E c \in ThreadCalls : Invoke(t, HandleOf(t), c[1], c[2])
    \/ Step(t)

SpecHandles == InitThreads /\ [][NextHandles]_vars

\* MemoryStore(memory_file) run by a thread, step by step:
\*   os.path.exists(memory_file)  ->  initial_memory = {...}, os.makedirs,
\*   open(memory_file, 'w')       ->  json.dump(initial_memory, f).
\* A thread at "new" has no store object yet.
Unconstructed == [Idle EXCEPT !.pc = "new"]

\* if not os.path.exists(memory_file): the file is there and the constructor
\* returns, or it is not and _initialize_memory is entered.
Exists(t) ==
  /\ threads[t].pc = "new"
  /\ IF file # NoFile
     THEN /\ threads' = [threads EXCEPT ![t] = Idle]
          /\ last' = Returned("init", t, None)
     ELSE /\ threads' = [threads EXCEPT ![t].pc = "initialize"]
          /\ last' = last
  /\ UNCHANGED <<file, clock, ncalls, budget, issued, inserted, locks, table, agent>>

\* _initialize_memory up to open(self.memory_file, 'w'), which creates the
\* file or empties the one that is there.
InitializeOpen(t) ==
  /\ threads[t].pc = "initialize"
  /\ threads' = [threads EXCEPT ![t].pc = "initialize_dump",
                                ![t].memory = Some(initialize_memory(clock))]
  /\ file' = CorruptFile
  /\ UNCHANGED <<clock, last, ncalls, budget, issued, inserted, locks, table, agent>>

\* json.dump(initial_memory, f, indent=2), and the constructor returns.
InitializeDump(t) ==
  /\ threads[t].pc = "initialize_dump"
  /\ file' = threads[t].memory[1]
  /\ threads' = [threads EXCEPT ![t] = Idle]
  /\ last' = Returned("init", t, None)
  /\ UNCHANGED <<clock, ncalls, budget, issued, inserted, locks, table, agent>>

\* The calls made on the stores the threads construct.
BootCalls ==
  { <<"store_session", [kind |-> "list", v |-> 1]>>,
    <<"store_kpi_snapshot", <<1, ASnapshot>>>>,
    <<"get_recent_sessions", 1>> }

\* Each thread constructs a store of its own on the one path, which holds
\* no file, and then uses it.
InitBoot ==
  /\ clock = StartOfTime
  /\ file = NoFile
  /\ last = [op |-> "none", arg |-> None, ok |-> TRUE, ret |-> None]
  /\ ncalls = 0
  /\ budget = MaxBootCalls
  /\ issued = <<>>
  /\ inserted = <<>>
  /\ threads = [t \in Threads |-> Unconstructed]
  /\ locks = [h \in Handles |-> None]
  /\ table = <<>>
  /\ agent = NoAgent

NextBoot ==
  \E t \in Threads :
    \/ Exists(t)
    \/ InitializeOpen(t)
    \/ InitializeDump(t)
    \/ \E c \in BootCalls : Invoke(t, HandleOf(t), c[1], c[2])
    \/ Step(t)
    \/ TickSec

SpecBoot == InitBoot /\ [][NextBoot]_vars

\* The calls of threads some of whose operations fail: a cutoff outside the
\* month, a session that cannot be serialized, a comparison over no day.
FairCalls ==
  ThreadCalls \cup
  { <<"clear_old_data", 1>>,
    <<"clear_old_data", DEFAULT_DAYS_TO_KEEP>>,
    <<"store_session", [kind |-> "object", v |-> 3]>>,
    <<"compare_with_history", <<[k \in {"Revenue"} |-> 15], 0>>>> }

\* Several threads share one store object, and every thread that can take
\* a step of its handler eventually takes one: a runnable thread is
\* scheduled, and a thread blocked in lock.acquire is woken when the lock is
\* free.  The callers are under no obligation to call.
InitFair == Constructed(MaxFairCalls)

NextFair ==
  \E t \in Threads :
    \/ \E c \in FairCalls : Invoke(t, "h1", c[1], c[2])
    \/ Step(t)

SpecFair == InitFair /\ [][NextFair]_vars /\ \A t \in Threads : WF_vars(Step(t))

(***************************************************************************)
(* StatsTools.detect_trend, on a table that holds the Date column and the  *)
(* column asked for, with no two rows of one date and no missing value.    *)
(* Numbers the code holds as floats are exact fractions [num, den] here,   *)
(* den > 0; values rounded to two decimals are integers of hundredths.     *)
(***************************************************************************)
TrendDates == 1..MaxRows
\* The values of a column: a table draws its values from one of these sets
\* (the second holds a growth between 5 and 5.005 per cent).
TrendValues == { {0 - 100, 0, 90, 95, 100, 105, 110}, {20001, 21002} }
Windows == {2, 7}

\* The tables: up to MaxRows rows in any order, no two of one date.
Tables ==
  UNION { { t \in [1..n -> [date : TrendDates, value : V]] :
              \A i, j \in 1..n : i # j => t[i].date # t[j].date } :
          n \in 0..MaxRows, V \in TrendValues }

\* The rows in the order they were given.
sort_values_unsorted(rows) == rows

RECURSIVE sort_values(_)
\* df.sort_values('Date'): the rows by ascending date.
sort_values(rows) ==
  IF rows = <<>> THEN <<>>
  ELSE LET i == CHOOSE i \in DOMAIN rows : \A j \in DOMAIN rows : rows[i].date <= rows[j].date
       IN  <<rows[i]>> \o
           sort_values([k \in 1..(Len(rows) - 1) |-> IF k < i THEN rows[k] ELSE rows[k + 1]])

\* total_growth (lines 68-73): 0 for fewer than two values; a first value of
\* 0 is replaced by 0.01 = 1/100.
total_growth(values) ==
  IF Len(values) > 1
  THEN LET first == values[1]
           last_val == values[Len(values)]
       IN  IF first # 0
           THEN [num |-> (last_val - first) * 100, den |-> Abs(first)]
           ELSE [num |-> (100 * last_val - 1) * 100, den |-> 1]
  ELSE [num |-> 0, den |-> 1]

\* The thresholds taken inclusively.
trend_direction_inclusive(growth) ==
  IF growth.num >= 5 * growth.den THEN "upward"
  ELSE IF growth.num <= (0 - 5) * growth.den THEN "downward"
  ELSE "stable"

\* Lines 79-84.
trend_direction(growth) ==
  IF growth.num > 5 * growth.den THEN "upward"
  ELSE IF growth.num < (0 - 5) * growth.den THEN "downward"
  ELSE "stable"

\* pd.Series(values).rolling(window=window, min_periods=1).mean(): at each
\* position the mean of the values of the window that exist.
moving_average(values, window) ==
  [i \in DOMAIN values |->
     LET lo == Max(1, i - window + 1)
     IN  [num |-> SumSeq(SubSeq(values, lo, i)), den |-> i - lo + 1]]

\* The last moving average compared with the first one.
recent_trend_first(ma) ==
  LET a == ma[Len(ma)]
      b == ma[1]
  IN  IF a.num * b.den > b.num * a.den THEN "increasing" ELSE "decreasing"

\* ma.iloc[-1] > ma.iloc[-min(7, len(ma))]
recent_trend(ma) ==
  LET a == ma[Len(ma)]
      b == ma[Len(ma) - Min(RECENT_SPAN, Len(ma)) + 1]
  IN  IF a.num * b.den > b.num * a.den THEN "increasing" ELSE "decreasing"

\* The record detect_trend returns (without avg_period_change_pct and
\* volatility, which no property here reads).
detect_trend(df, window) ==
  LET df_sorted == sort_values(df)
      values == [i \in DOMAIN df_sorted |-> df_sorted[i].value]
      growth == total_growth(values)
      ma == moving_average(values, window)
  IN  [ total_growth_pct |-> Round2(growth.num, growth.den),
        trend_direction |-> trend_direction(growth),
        moving_average |-> ma,
        recent_trend |-> recent_trend(ma) ]

\* ma.iloc[-1] raises IndexError on a table without rows.
DetectTrend(window) ==
  /\ last' = IF table = <<>> THEN Failed("detect_trend", window, "IndexError")
             ELSE Returned("detect_trend", window, detect_trend(table, window))
  /\ UNCHANGED <<file, clock, ncalls, budget, issued, inserted, concvars, table, agent>>

InitTrend ==
  /\ clock = StartOfTime
  /\ file = initialize_memory(StartOfTime)
  /\ last = [op |-> "init", arg |-> None, ok |-> TRUE, ret |-> None]
  /\ ncalls = 0
  /\ budget = 0
  /\ issued = <<>>
  /\ inserted = <<>>
  /\ threads = [t \in Threads |-> Idle]
  /\ locks = [h \in Handles |-> None]
  /\ table \in Tables
  /\ agent = NoAgent

NextTrend == \E w \in Windows : DetectTrend(w)

SpecTrend == InitTrend /\ [][NextTrend]_vars

\* Longer series: one row per date, in date order, each value one of two.
SeriesValues == {0, 10}
SeriesTables ==
  UNION { { [i \in 1..n |-> [date |-> i, value |-> v[i]]] : v \in [1..n -> SeriesValues] } :
          n \in 1..MaxSeries }

InitSeries ==
  /\ clock = StartOfTime
  /\ file = initialize_memory(StartOfTime)
  /\ last = [op |-> "init", arg |-> None, ok |-> TRUE, ret |-> None]
  /\ ncalls = 0
  /\ budget = 0
  /\ issued = <<>>
  /\ inserted = <<>>
  /\ threads = [t \in Threads |-> Idle]
  /\ locks = [h \in Handles |-> None]
  /\ table \in SeriesTables
  /\ agent = NoAgent

SpecSeries == InitSeries /\ [][NextTrend]_vars

(***************************************************************************)
(* StatsTools.detect_anomalies, on a table whose rows hold a date and the  *)
(* value of the column asked for, a missing value (NaN) being None.  The   *)
(* row label of a row is its position in the table.                        *)
(***************************************************************************)
\* The leading rows of a column, and the values its remaining rows repeat.
Heads ==
  { <<>>, <<None>>, <<Some(1), Some(10)>>, <<None, Some(20)>>,
    <<Some(20), None, Some(0)>>, <<None, None>> }
MotifValues == {0, 10, 20}
Motifs == UNION { [1..k -> MotifValues] : k \in 1..MaxMotif }

Column(n, head, motif) ==
  [i \in 1..n |->
     IF i <= Len(head) THEN head[i]
     ELSE Some(motif[((i - Len(head) - 1) % Len(motif)) + 1])]

AnomalyTables ==
  { [i \in 1..n |-> [date |-> i, value |-> Column(n, h, m)[i]]] :
      n \in 0..MaxPoints, h \in Heads, m \in Motifs }

Methods == {"zscore", "iqr"}

\* df[column].dropna(): the rows that hold a value, with their row labels.
dropna(df) ==
  SelectSeq([i \in DOMAIN df |-> [index |-> i, date |-> df[i].date, value |-> df[i].value]],
            LAMBDA r : r.value # None)

\* The values of data, unwrapped.
ValuesOf(data) == [i \in DOMAIN data |-> data[i].value[1]]

\* stats.zscore(data) with its default ddof=0, squared: z = (x - mean) / std
\* with std the population standard deviation, so for n values of sum S
\* z^2 = n * (n*x - S)^2 / SUM (n*x_k - S)^2.  A zero deviation sum gives NaN
\* (den = 0).
zscore_sq(values) ==
  LET n == Len(values)
      S == SumSeq(values)
      dev == [i \in DOMAIN values |-> n * values[i] - S]
      Q == SumSeq([i \in DOMAIN values |-> dev[i] * dev[i]])
  IN  [i \in DOMAIN values |-> [num |-> n * dev[i] * dev[i], den |-> Q]]

\* np.abs(z) > self.z_threshold, on the squares; a comparison with NaN is
\* False.
ExceedsThreshold(zsq) ==
  zsq.den # 0 /\ zsq.num > Z_THRESHOLD * Z_THRESHOLD * zsq.den

\* The k-th smallest of the values, k counted from 0.
KthSmallest(values, k) ==
  LET D == DOMAIN values
  IN  values[CHOOSE i \in D :
        /\ Cardinality({j \in D : values[j] < values[i]}) <= k
        /\ k < Cardinality({j \in D : values[j] <= values[i]})]

\* data.quantile(q4 / 4) in quarters (linear interpolation between the two
\* order statistics around position (n - 1) * q4 / 4), for n >= 1.
quantile4(values, q4) ==
  LET pos == (Len(values) - 1) * q4
      lo == pos \div 4
      frac == pos % 4
  IN  IF frac = 0 THEN 4 * KthSmallest(values, lo)
      ELSE (4 - frac) * KthSmallest(values, lo) + frac * KthSmallest(values, lo + 1)

\* lower_bound and upper_bound in eighths: q1 - 1.5 * iqr and q3 + 1.5 * iqr.
iqr_bounds(values) ==
  LET q1 == quantile4(values, 1)
      q3 == quantile4(values, 3)
      iqr == q3 - q1
  IN  [lower |-> 2 * q1 - IQR_MULTIPLIER_X2 * iqr, upper |-> 2 * q3 + IQR_MULTIPLIER_X2 * iqr]


\* The list of flagged points, lines 117-150.
flagged_points(data, method) ==
  IF method = "zscore"
  THEN LET z == zscore_sq(ValuesOf(data))
       IN  SelectSeq([i \in DOMAIN data |->
                        [index |-> data[i].index, value |-> data[i].value[1],
                         z_score_sq |-> z[i], date |-> data[i].date]],
                     LAMBDA a : ExceedsThreshold(a.z_score_sq))
  ELSE IF method = "iqr"
  THEN LET b == iqr_bounds(ValuesOf(data))
       IN  SelectSeq([i \in DOMAIN data |->
                        [index |-> data[i].index, value |-> data[i].value[1],
                         lower_bound |-> b.lower, upper_bound |-> b.upper,
                         date |-> data[i].date]],
                     LAMBDA a : 8 * a.value < a.lower_bound \/ 8 * a.value > a.upper_bound)
  ELSE <<>>

\* The last 10 of the list.
detail_list_last(anomalies) == PyTail(anomalies, DETAIL_CAP)

\* anomalies[:10]
detail_list(anomalies) == PyHead(anomalies, DETAIL_CAP)

\* The record detect_anomalies returns (lines 152-158); anomaly_rate is in
\* hundredths.
detect_anomalies(df, method) ==
  LET data == dropna(df)
      anomalies == IF data = <<>> THEN <<>> ELSE flagged_points(data, method)
  IN  [ method |-> method,
        anomalies_found |-> Len(anomalies),
        anomalies |-> detail_list(anomalies),
        anomaly_rate |-> Round2(Len(anomalies) * 100, Len(data)) ]

\* len(anomalies) / len(data) raises ZeroDivisionError when no value is left.
DetectAnomalies(method) ==
  /\ last' = IF dropna(table) = <<>>
             THEN Failed("detect_anomalies", method, "ZeroDivisionError")
             ELSE Returned("detect_anomalies", method, detect_anomalies(table, method))
  /\ UNCHANGED <<file, clock, ncalls, budget, issued, inserted, concvars, table, agent>>

\* A fresh store and the table T handed to StatsTools.
InitStats(T) ==
  /\ clock = StartOfTime
  /\ file = initialize_memory(StartOfTime)
  /\ last = [op |-> "init", arg |-> None, ok |-> TRUE, ret |-> None]
  /\ ncalls = 0
  /\ budget = 0
  /\ issued = <<>>
  /\ inserted = <<>>
  /\ threads = [t \in Threads |-> Idle]
  /\ locks = [h \in Handles |-> None]
  /\ table \in T
  /\ agent = NoAgent

InitAnomalies == InitStats(AnomalyTables)

NextAnomalies == \E m \in Methods : DetectAnomalies(m)

SpecAnomalies == InitAnomalies /\ [][NextAnomalies]_vars

(***************************************************************************)
(* StatsTools.correlation_matrix.  The table is given by the columns it    *)
(* holds, those of them that are numeric, those that are constant, and the *)
(* Pearson coefficient of every two columns in ten-thousandths;            *)
(* DataFrame.corr gives NaN (None here) for a pair with a constant column. *)
(***************************************************************************)
ColumnNames == {"A", "B", "C", "D"}
RequestedColumns ==
  { <<>>, <<"A">>, <<"A", "B">>, <<"A", "B", "C">>, <<"A", "B", "C", "D">>,
    <<"D", "X", "C", "B", "A">>, <<"B", "T", "D", "C">> }
CoefficientValues == {0 - 9000, 8996, 5004}
ColumnPairs == { P \in SUBSET ColumnNames : Cardinality(P) = 2 }

\* "T" is a column of text; "X" is in no table.
CorrelationTables ==
  { [ columns |-> ColumnNames \cup {"T"},
      numeric |-> ColumnNames,
      constant |-> k,
      pearson |-> p ] :
      k \in {{}, {"B"}, {"A", "D"}}, p \in [ColumnPairs -> CoefficientValues] }

\* round(x, 3) in thousandths for x = num/den, den > 0 (half to even).
Round3(num, den) ==
  LET n == Abs(num) * 1000
      q == n \div den
      r == n % den
      up == (2 * r > den) \/ (2 * r = den /\ q % 2 = 1)
      mag == IF up THEN q + 1 ELSE q
  IN  IF num < 0 THEN 0 - mag ELSE mag

\* [col for col in columns if col in df.columns and is_numeric_dtype(df[col])]
valid_columns(df, columns) ==
  SelectSeq(columns, LAMBDA col : col \in df.columns /\ col \in df.numeric)

\* corr_matrix.iloc[i, j] for two different columns, rounded to 3 decimals;
\* round(NaN, 3) is NaN.
rounded_coefficient(df, a, b) ==
  IF a \in df.constant \/ b \in df.constant THEN None
  ELSE Some(Round3(df.pearson[{a, b}], 10000))

RECURSIVE pairs_from(_, _, _, _)
\* The loop of lines 234-240 from the indices i, j on (counted from 1).
pairs_from(df, cols, i, j) ==
  IF i > Len(cols) THEN <<>>
  ELSE IF j > Len(cols) THEN pairs_from(df, cols, i + 1, i + 2)
  ELSE <<[col1 |-> cols[i], col2 |-> cols[j],
          correlation |-> rounded_coefficient(df, cols[i], cols[j])]>>
       \o pairs_from(df, cols, i, j + 1)

\* key=lambda x: abs(x['correlation'])
sort_key(x) == IF x.correlation = None THEN None ELSE Some(Abs(x.correlation[1]))

\* a < b on two keys; a comparison with NaN is False.
KeyLess(a, b) == a # None /\ b # None /\ a[1] < b[1]

Reverse(s) == [i \in DOMAIN s |-> s[Len(s) + 1 - i]]

RECURSIVE count_run(_, _, _)
\* CPython's list.sort, count_run: the length of the run that starts the
\* list, strictly descending (desc) or non-descending.
count_run(a, n, desc) ==
  IF n < Len(a) /\ (KeyLess(sort_key(a[n + 1]), sort_key(a[n])) <=> desc)
  THEN count_run(a, n + 1, desc)
  ELSE n

RECURSIVE bisect(_, _, _, _)
\* CPython's list.sort, binarysort: the position (counted from 0) at which
\* pivot is inserted among a[l..r-1].
bisect(a, pivot, l, r) ==
  IF l < r
  THEN LET p == l + ((r - l) \div 2)
       IN  IF KeyLess(sort_key(pivot), sort_key(a[p + 1]))
           THEN bisect(a, pivot, l, p)
           ELSE bisect(a, pivot, p + 1, r)
  ELSE l

RECURSIVE binarysort(_, _)
\* CPython's list.sort, binarysort: a[0..start-1] is sorted; the remaining
\* items are inserted one by one.
binarysort(a, start) ==
  IF start >= Len(a) THEN a
  ELSE LET pivot == a[start + 1]
           l == bisect(a, pivot, 0, start)
       IN  binarysort([i \in DOMAIN a |->
                         IF i <= l THEN a[i]
                         ELSE IF i = l + 1 THEN pivot
                         ELSE IF i <= start + 1 THEN a[i - 1]
                         ELSE a[i]],
                      start + 1)

\* correlations.sort(key=..., reverse=True) as CPython sorts a list of fewer
\* than 64 items: the list is reversed, its leading run is found (and
\* reversed if descending), the other items are inserted by binary
\* insertion, and the list is reversed again.
list_sort(correlations) ==
  LET a == Reverse(correlations)
  IN  IF Len(a) < 2 THEN correlations
      ELSE LET desc == KeyLess(sort_key(a[2]), sort_key(a[1]))
               run == count_run(a, 2, desc)
               b == IF desc
                    THEN [i \in DOMAIN a |-> IF i <= run THEN a[run + 1 - i] ELSE a[i]]
                    ELSE a
           IN  Reverse(binarysort(b, run))

\* The record correlation_matrix returns (the matrix itself left out).
correlation_matrix(df, columns) ==
  LET valid_cols == valid_columns(df, columns)
  IN  IF Len(valid_cols) < 2 THEN [error |-> "Need at least 2 numeric columns"]
      ELSE [ top_correlations |-> PyHead(list_sort(pairs_from(df, valid_cols, 1, 2)), TOP_N),
             columns_analyzed |-> valid_cols ]

CorrelationMatrix(columns) ==
  /\ last' = Returned("correlation_matrix", columns, correlation_matrix(table, columns))
  /\ UNCHANGED <<file, clock, ncalls, budget, issued, inserted, concvars, table, agent>>

InitCorrelation == InitStats(CorrelationTables)

NextCorrelation == \E columns \in RequestedColumns : CorrelationMatrix(columns)

SpecCorrelation == InitCorrelation /\ [][NextCorrelation]_vars

(***************************************************************************)
(* StatsTools.calculate_basic_stats.  A statistic is None when pandas      *)
(* gives NaN and Some fraction [num, den] otherwise; the standard          *)
(* deviation is given by its square.                                       *)
(***************************************************************************)
Fraction(num, den) == Some([num |-> num, den |-> den])

\* data.mean()
series_mean(values) ==
  IF values = <<>> THEN None ELSE Fraction(SumSeq(values), Len(values))

\* data.quantile(q4 / 4); data.median() is data.quantile(0.5).
series_quantile(values, q4) ==
  IF values = <<>> THEN None ELSE Fraction(quantile4(values, q4), 4)

\* data.std() squared: the sample variance (ddof=1), NaN for fewer than two
\* values.
series_var(values) ==
  LET n == Len(values)
      S == SumSeq(values)
      Q == SumSeq([i \in DOMAIN values |-> (n * values[i] - S) * (n * values[i] - S)])
  IN  IF n < 2 THEN None ELSE Fraction(Q, n * n * (n - 1))

\* data.min() and data.max()
series_min(values) ==
  IF values = <<>> THEN None ELSE Fraction(KthSmallest(values, 0), 1)
series_max(values) ==
  IF values = <<>> THEN None ELSE Fraction(KthSmallest(values, Len(values) - 1), 1)

\* The record calculate_basic_stats returns (lines 33-44).
calculate_basic_stats(df) ==
  LET values == ValuesOf(dropna(df))
  IN  [ mean |-> series_mean(values),
        median |-> series_quantile(values, 2),
        std_sq |-> series_var(values),
        min |-> series_min(values),
        max |-> series_max(values),
        q25 |-> series_quantile(values, 1),
        q75 |-> series_quantile(values, 3),
        count |-> Len(values) ]

CalculateBasicStats ==
  /\ last' = Returned("calculate_basic_stats", None, calculate_basic_stats(table))
  /\ UNCHANGED <<file, clock, ncalls, budget, issued, inserted, concvars, table, agent>>

NextBasicStats == CalculateBasicStats

SpecBasicStats == InitAnomalies /\ [][NextBasicStats]_vars

(***************************************************************************)
(* Claims.                                                                 *)
(***************************************************************************)

\* C1: after k store_insight calls on a store that started empty, the stored
\* insights are exactly the min(k, 100) most recently inserted ones, in the
\* order of insertion; no persisted state holds more than 100.
C1_InsightsAreTheMostRecent ==
  LET k == Len(inserted)
      n == Len(file.insights)
  IN  /\ n = (IF k < 100 THEN k ELSE 100)
      /\ \A i \in 1..n : file.insights[i] = inserted[k - n + i]

C1_Witness ==
  /\ Len(inserted) = 101
  /\ Len(file.insights) = 100
  /\ file.insights[1].text = 2
  /\ file.insights[100].text = 101

C3_SessionIdsDistinct ==
  \A i, j \in DOMAIN issued : i # j => issued[i] # issued[j]

\* The value history h holds for KPI k on date d, None when there is none.
HistoryValue(h, d, k) ==
  IF d \in DOMAIN h /\ k \in DOMAIN h[d] THEN Some(h[d][k]) ELSE None

\* C4: store_kpi_snapshots_batch(B) merges per KPI field: afterwards the value
\* of (d, k) is B[d][k] when the batch holds it and the value stored before
\* otherwise; the dates are the earlier ones and the batch's; sessions and
\* insights are unchanged.
C4_BatchMergesPerField ==
  [][ ( /\ ncalls' = ncalls + 1
        /\ last'.op = "store_kpi_snapshots_batch" /\ last'.ok )
      => LET B == last'.arg
             old == file.kpi_history
             new == file'.kpi_history
         IN  /\ DOMAIN new = (DOMAIN old) \cup (DOMAIN B)
             /\ \A d \in Dates, k \in Kpis :
                   HistoryValue(new, d, k) =
                     IF d \in DOMAIN B /\ k \in DOMAIN B[d]
                     THEN Some(B[d][k]) ELSE HistoryValue(old, d, k)
             /\ file'.sessions = file.sessions
             /\ file'.insights = file.insights ]_vars

\* Two batches with date 1 in common and disjoint keys left the union.
C4_Witness ==
  /\ last.op = "store_kpi_snapshots_batch" /\ last.ok
  /\ DOMAIN last.arg = {1}
  /\ DOMAIN last.arg[1] = {"Profit"}
  /\ DOMAIN file.kpi_history = {1, 2}
  /\ file.kpi_history[1] = [k \in {"Revenue", "Profit"} |->
                              IF k = "Revenue" THEN 10 ELSE 0 - 10]

NullComparison(current_value) ==
  [ current |-> current_value, historical_avg |-> None, change |-> None,
    change_pct |-> None, data_points |-> 0 ]

\* C5: on a store whose KPI history is empty compare_with_history returns,
\* for every KPI asked for and any lookback_days, the entry with
\* historical_avg, change and change_pct null and data_points 0, and does not
\* raise; whenever it returns, a KPI that has no value on any stored date
\* gets that same entry.
C5_NoHistoryGivesNulls ==
  (last.op = "compare_with_history" /\ file.valid) =>
    LET cur == last.arg[1]
    IN  /\ file.kpi_history = <<>> =>
             /\ last.ok
             /\ DOMAIN last.ret = DOMAIN cur
             /\ \A k \in DOMAIN cur : last.ret[k] = NullComparison(cur[k])
        /\ last.ok =>
             \A k \in DOMAIN cur :
               (\A d \in DOMAIN file.kpi_history : k \notin DOMAIN file.kpi_history[d])
                 => last.ret[k] = NullComparison(cur[k])

\* A KPI without history was compared while another KPI had some.
C5_Witness ==
  /\ last.op = "compare_with_history" /\ last.ok
  /\ DOMAIN last.arg[1] = {"Revenue", "Profit"}
  /\ file.kpi_history # <<>>
  /\ last.ret["Profit"].data_points = 0
  /\ last.ret["Profit"].change_pct = None
  /\ last.ret["Revenue"].data_points > 0

\* C5, the first case: the history is empty.
C5_WitnessEmpty ==
  /\ last.op = "compare_with_history" /\ last.ok
  /\ file.kpi_history = <<>>
  /\ last.arg[2] = 0

\* C6: for a KPI with history, change = current - avg and
\* change_pct = change / |avg| * 100 (0 when avg = 0), each rounded to two
\* decimals; avg = total/count over the values compared.
C6_ChangePctDividesByAbsAvg ==
  (last.op = "compare_with_history" /\ last.ok) =>
    LET cur == last.arg[1]
    IN  \A k \in DOMAIN cur :
          HasHistory(file, k) =>
            LET vals == HistoricalValues(file, k, last.arg[2])
                total == SumSeq(vals)
                count == Len(vals)
                scaled == cur[k] * count - total
            IN  /\ last.ret[k].change = Some(Round2(scaled, count))
                /\ last.ret[k].change_pct =
                     Some(IF total = 0 THEN 0 ELSE Round2(scaled * 100, Abs(total)))

\* C7: on one store object used by several threads the load -> mutate ->
\* persist cycles never overlap with each other or with a read: at most one
\* thread is inside a cycle, no call finds the file half written, and once no
\* cycle is under way no update is lost (the store holds one session per
\* completed store_session, total_sessions counts them, and it holds one
\* insight per completed store_insight).
C7_CyclesNeverOverlap ==
  /\ \A t1 \in Threads, t2 \in Threads : (InCycle(t1) /\ InCycle(t2)) => t1 = t2
  /\ last.ok
  /\ (\A t \in Threads : ~InCycle(t)) =>
        /\ file.valid
        /\ Len(file.sessions) = Len(issued)
        /\ file.metadata.total_sessions = Len(issued)
        /\ Len(file.insights) = Len(inserted)

\* A thread waits for the lock while the other is writing, after a first
\* session was stored.
C7_Witness ==
  /\ threads["t1"].pc = "dump" /\ threads["t1"].op = "store_session"
  /\ threads["t2"].pc = "acquire" /\ threads["t2"].op = "store_session"
  /\ Len(issued) = 1

\* C8: the lock is process-wide: with two store objects on one backing file no
\* write made through either is lost (once no cycle is under way the store
\* holds one session per completed store_session and total_sessions counts
\* them).
C8_NoWriteLostAcrossHandles ==
  (\A t \in Threads : ~InCycle(t)) =>
     /\ file.valid
     /\ Len(file.sessions) = Len(issued)
     /\ file.metadata.total_sessions = Len(issued)

\* The value of the row of the earliest date, and of the latest.
EarliestValue == (CHOOSE r \in {table[i] : i \in DOMAIN table} :
                    \A i \in DOMAIN table : r.date <= table[i].date).value
LatestValue == (CHOOSE r \in {table[i] : i \in DOMAIN table} :
                  \A i \in DOMAIN table : r.date >= table[i].date).value

\* (last - first) / |first| * 100 as the fraction GrowthNum / GrowthDen, with
\* first = 0.01 in place of 0.
GrowthNum ==
  IF EarliestValue = 0 THEN (100 * LatestValue - 1) * 100
  ELSE (LatestValue - EarliestValue) * 100
GrowthDen == IF EarliestValue = 0 THEN 1 ELSE Abs(EarliestValue)

TrendReturned == last.op = "detect_trend" /\ last.ok

\* C9 (as claimed): on a table of two rows or more the direction is upward
\* iff the total growth detect_trend reports is > 5, downward iff it is < -5,
\* and stable otherwise; a 1-row table is stable.
C9_DirectionFollowsReportedGrowth ==
  TrendReturned =>
    /\ Len(table) >= 2 =>
         /\ last.ret.trend_direction = "upward" <=> last.ret.total_growth_pct > 500
         /\ last.ret.trend_direction = "downward" <=> last.ret.total_growth_pct < 0 - 500
         /\ last.ret.trend_direction \in {"upward", "downward", "stable"}
    /\ Len(table) = 1 => last.ret.trend_direction = "stable"

\* C9 (amended): the direction is upward iff the total growth before rounding
\* is > 5, downward iff it is < -5, stable otherwise (5 and -5 are stable);
\* the reported growth is that value rounded to two decimals, so a reported
\* growth > 5 implies upward and upward implies a reported growth >= 5.0
\* (a growth in (5, 5.005) is reported as 5.0 with upward), and likewise
\* downward; a 1-row table is stable.
C9_DirectionFollowsUnroundedGrowth ==
  TrendReturned =>
    /\ Len(table) >= 2 =>
         /\ last.ret.trend_direction = "upward" <=> GrowthNum > 5 * GrowthDen
         /\ last.ret.trend_direction = "downward" <=> GrowthNum < (0 - 5) * GrowthDen
         /\ last.ret.trend_direction \in {"upward", "downward", "stable"}
         /\ last.ret.total_growth_pct > 500 => last.ret.trend_direction = "upward"
         /\ last.ret.trend_direction = "upward" => last.ret.total_growth_pct >= 500
         /\ last.ret.total_growth_pct < 0 - 500 => last.ret.trend_direction = "downward"
         /\ last.ret.trend_direction = "downward" => last.ret.total_growth_pct <= 0 - 500
    /\ Len(table) = 1 => last.ret.trend_direction = "stable"

\* A growth of exactly 5 is stable.
C9_Witness ==
  /\ TrendReturned
  /\ Len(table) = 3
  /\ EarliestValue = 100 /\ LatestValue = 105
  /\ last.ret.trend_direction = "stable"
  /\ last.ret.total_growth_pct = 500

\* C10: the total growth is (last - first) / |first| * 100 (reported rounded
\* to two decimals), first and last being the values of the earliest and the
\* latest date whatever the order of the rows, a first value of 0 replaced by
\* 0.01; the values 100, 110, 90 by date give -10.0 and downward.
C10_GrowthOverSortedRows ==
  TrendReturned =>
    /\ Len(table) >= 2 => last.ret.total_growth_pct = Round2(GrowthNum, GrowthDen)
    /\ ( /\ Len(table) = 3
         /\ \A i \in 1..3 :
              \/ table[i].date = 1 /\ table[i].value = 100
              \/ table[i].date = 2 /\ table[i].value = 110
              \/ table[i].date = 3 /\ table[i].value = 90 )
       => /\ last.ret.total_growth_pct = 0 - 1000
          /\ last.ret.trend_direction = "downward"

\* The rows 110, 90, 100 of the dates 2, 3, 1.
C10_Witness ==
  /\ TrendReturned
  /\ table = << [date |-> 2, value |-> 110], [date |-> 3, value |-> 90],
                [date |-> 1, value |-> 100] >>
  /\ last.ret.total_growth_pct = 0 - 1000
  /\ last.ret.trend_direction = "downward"

\* C10, the substitution: a first value of 0 was replaced by 0.01.
C10_WitnessZeroFirst ==
  /\ TrendReturned
  /\ Len(table) = 2
  /\ EarliestValue = 0 /\ LatestValue = 90
  /\ last.ret.total_growth_pct = 89990000

AnomaliesReturned(method) ==
  last.op = "detect_anomalies" /\ last.ok /\ last.arg = method

\* The values that are not missing, by row label.
NonMissing == {i \in DOMAIN table : table[i].value # None}
ValueAt(i) == table[i].value[1]

\* The rows with |z| > 3, z = (value - mean) / std over the values that are
\* not missing, std with divisor n - d: with dev = n * value - sum,
\* z^2 = (n - d) * dev^2 / SUM dev^2.
FlaggedByZ(d) ==
  LET data == dropna(table)
      n == Len(data)
      S == SumSeq(ValuesOf(data))
      devsq == [k \in DOMAIN data |-> (n * data[k].value[1] - S) * (n * data[k].value[1] - S)]
      Q == SumSeq(devsq)
  IN  IF Q = 0 THEN {}
      ELSE { data[k].index : k \in { k \in DOMAIN data :
                                       (n - d) * devsq[k] > Z_THRESHOLD * Z_THRESHOLD * Q } }

\* C11: with method zscore the flagged points are exactly the non-missing
\* points with |z| > 3.0, z = (value - mean) / std, std being the sample
\* standard deviation (divisor n - 1).
C11_ZscoreFlagsBySampleStd ==
  AnomaliesReturned("zscore") =>
    LET F == FlaggedByZ(1)
    IN  /\ last.ret.anomalies_found = Cardinality(F)
        /\ \A k \in DOMAIN last.ret.anomalies : last.ret.anomalies[k].index \in F

\* What the code flags: |z| > 3.0 with the population standard deviation.
C11_FlagsByPopulationStd ==
  AnomaliesReturned("zscore") =>
    LET F == FlaggedByZ(0)
    IN  /\ last.ret.anomalies_found = Cardinality(F)
        /\ \A k \in DOMAIN last.ret.anomalies : last.ret.anomalies[k].index \in F

\* The rows an IQR call flags: the values outside [q1 - 1.5 iqr, q3 + 1.5 iqr].
FlaggedByIqr ==
  LET b == iqr_bounds(ValuesOf(dropna(table)))
      lo == b.lower
      hi == b.upper
  IN  { i \in NonMissing : 8 * ValueAt(i) < lo \/ 8 * ValueAt(i) > hi }

FlaggedBy(method) == IF method = "zscore" THEN FlaggedByZ(0) ELSE FlaggedByIqr

\* The detail list holds the first min(10, F) flagged rows in row order.
DetailIsFirstFlagged(flagged) ==
  LET detail == last.ret.anomalies
      F == flagged
  IN  /\ Len(detail) = Min(DETAIL_CAP, Cardinality(F))
      /\ \A k \in DOMAIN detail :
           /\ detail[k].index \in F
           /\ detail[k].value = ValueAt(detail[k].index)
           /\ Cardinality({i \in F : i < detail[k].index}) = k - 1

C13_WitnessZscore ==
  /\ AnomaliesReturned("zscore")
  /\ last.ret.anomalies_found = 1
  /\ last.ret.anomalies[1].index > 1

CorrelationReturned ==
  last.op = "correlation_matrix" /\ last.ok /\ "top_correlations" \in DOMAIN last.ret

\* The place of the pair (a, b) in the row-major enumeration of the pairs
\* i < j of the analyzed columns.
PairRank(a, b) ==
  LET cols == last.ret.columns_analyzed
      i == CHOOSE i \in DOMAIN cols : cols[i] = a
      j == CHOOSE j \in DOMAIN cols : cols[j] = b
  IN  i * (Len(cols) + 1) + j

\* The top list: at most 5 entries, |coefficient| descending, ties in
\* enumeration order, no column paired with itself, no pair twice.
TopListWellFormed ==
  LET top == last.ret.top_correlations
  IN  /\ Len(top) <= TOP_N
      /\ \A k, l \in DOMAIN top :
           k < l =>
             /\ top[k].correlation # None /\ top[l].correlation # None
             /\ Abs(top[k].correlation[1]) >= Abs(top[l].correlation[1])
             /\ Abs(top[k].correlation[1]) = Abs(top[l].correlation[1])
                  => PairRank(top[k].col1, top[k].col2) < PairRank(top[l].col1, top[l].col2)
             /\ {top[k].col1, top[k].col2} # {top[l].col1, top[l].col2}
      /\ \A k \in DOMAIN top : top[k].col1 # top[k].col2

\* C12: the top_correlations list has at most 5 entries, is sorted by
\* descending |coefficient| with ties in row-major enumeration order of the
\* column pairs, holds no column paired with itself and no pair twice.
C12_TopCorrelationsSorted == CorrelationReturned => TopListWellFormed

\* The same on the tables without a constant column, where every coefficient
\* is a number.
C12_SortedWhenCoefficientsDefined ==
  (CorrelationReturned /\ table.constant = {}) => TopListWellFormed

\* A call of clear_old_data(k) on a store whose document parses.
ClearCalled ==
  /\ ncalls' = ncalls + 1
  /\ last'.op = "clear_old_data"
  /\ file.valid

\* The document keeps exactly the entries dated on or after day `cutoff`.
KeptFrom(cutoff) ==
  /\ file'.valid
  /\ file'.kpi_history = DictRestrict(file.kpi_history,
                                      {d \in DOMAIN file.kpi_history : d >= cutoff})
  /\ file'.sessions = SelectSeq(file.sessions, LAMBDA s : s.timestamp.day >= cutoff)
  /\ file'.insights = SelectSeq(file.insights, LAMBDA i : i.timestamp.day >= cutoff)

\* C14: for every days_to_keep >= 0 and every current date,
\* clear_old_data(days_to_keep) completes and removes exactly the KPI dates,
\* sessions and insights dated strictly before today - days_to_keep calendar
\* days, keeping every entry dated on or after that cutoff.
C14_ClearCompletesAndFilters ==
  [][ ClearCalled => (last'.ok /\ KeptFrom(clock.day - last'.arg)) ]_vars

\* What holds of the calls that return.
C14_ClearFiltersWhenItReturns ==
  [][ (ClearCalled /\ last'.ok) => KeptFrom(clock.day - last'.arg) ]_vars

\* The file holds the document the store writes: it parses and has the four
\* top-level keys.
ExpectedStructure(f) ==
  f.valid /\ {"sessions", "kpi_history", "insights", "metadata"} \subseteq DOMAIN f

\* A store operation was invoked in this step.
OperationCalled ==
  last'.op \notin {"init", "none"} /\ (ncalls' = ncalls + 1 \/ last' # last)

\* C15: when the file exists but does not parse into the expected
\* structure, neither constructing a store on it nor any store operation
\* changes it, and every operation that loads it reports a failure.
C15_CorruptStoreStaysAndFails ==
  [][ (file # NoFile /\ ~ExpectedStructure(file)) =>
        /\ file' = file
        /\ OperationCalled => ~last'.ok ]_vars

\* The same for a file that is not JSON at all.
C15_UnparseableStaysAndFails ==
  [][ (file # NoFile /\ ~file.valid) =>
        /\ file' = file
        /\ OperationCalled => ~last'.ok ]_vars

\* C16: constructing a store where no file exists creates the document with
\* empty sessions, kpi_history and insights, total_sessions = 0 and the
\* creation time; constructing it on a file that exists leaves the file
\* unchanged.
C16_ConstructCreatesOrLeaves ==
  [][ (last'.op = "init" /\ last' # last) =>
        IF file = NoFile
        THEN /\ last'.ok
             /\ file'.valid
             /\ file'.sessions = <<>> /\ file'.kpi_history = <<>> /\ file'.insights = <<>>
             /\ file'.metadata.total_sessions = 0
             /\ file'.metadata.created_at = clock
        ELSE file' = file ]_vars

\* What holds when the path has a directory part.
C16_ConstructWithDirectoryPart ==
  [][ (last'.op = "init" /\ last' # last /\ last'.arg.dirname # "") =>
        IF file = NoFile
        THEN /\ last'.ok
             /\ file' = initialize_memory(clock)
        ELSE file' = file ]_vars

\* A read `op` was made in this step (or the step repeats it).
ReadReturned(op) ==
  /\ last'.op = op /\ last'.ok
  /\ file' = file /\ clock' = clock

\* C17: for every n >= 0 and every store holding m sessions,
\* get_recent_sessions(n) returns the last min(n, m) sessions in insertion
\* order; get_recent_sessions(0) returns the empty list.
C17_RecentSessionsLastN ==
  [][ (ReadReturned("get_recent_sessions") /\ last'.arg >= 0) =>
        LET m == Len(file.sessions)
        IN  last'.ret = SubSeq(file.sessions, m - Min(last'.arg, m) + 1, m) ]_vars

\* The same for n >= 1.
C17_RecentSessionsLastNPositive ==
  [][ (ReadReturned("get_recent_sessions") /\ last'.arg >= 1) =>
        LET m == Len(file.sessions)
        IN  last'.ret = SubSeq(file.sessions, m - Min(last'.arg, m) + 1, m) ]_vars

\* C18 (as claimed): get_memory_stats reports a total session count equal to
\* the number of sessions held, a total insight count equal to the number of
\* insights held and a tracked-date count equal to the number of dates of
\* kpi_history.
C18_StatsCountWhatIsHeld ==
  [][ ReadReturned("get_memory_stats") =>
        /\ last'.ret.total_sessions = Len(file.sessions)
        /\ last'.ret.total_insights = Len(file.insights)
        /\ last'.ret.kpi_dates_tracked = Cardinality(DOMAIN file.kpi_history) ]_vars

\* C18 (amended): the total session count is the counter of the metadata,
\* the number of store_session calls that returned since the store was
\* created, which clear_old_data does not lower: it is at least the number
\* of sessions held; the other two counts are of what is held.
C18_StatsCountSessionsStored ==
  [][ ReadReturned("get_memory_stats") =>
        /\ last'.ret.total_sessions = Len(issued)
        /\ last'.ret.total_sessions >= Len(file.sessions)
        /\ last'.ret.total_insights = Len(file.insights)
        /\ last'.ret.kpi_dates_tracked = Cardinality(DOMAIN file.kpi_history) ]_vars

\* The statistics read after clear_old_data removed a session.
C18_Witness ==
  /\ last.op = "get_memory_stats" /\ last.ok
  /\ last.ret.total_sessions = file.metadata.total_sessions
  /\ last.ret.total_sessions = 2
  /\ Len(file.sessions) = 1
  /\ last.ret.total_insights = Len(file.insights)
  /\ last.ret.kpi_dates_tracked = Cardinality(DOMAIN file.kpi_history)

BasicStatsCalled == last.op = "calculate_basic_stats"

\* C19: calculate_basic_stats on a column without a non-missing value
\* reports a failure and returns no statistics record, never NaN statistics
\* with count = 0.
C19_EmptyColumnFails ==
  (BasicStatsCalled /\ NonMissing = {}) => ~last.ok

\* What is returned when values remain: the count of the values, min <= mean
\* <= max, q25 <= median <= q75, the mean being the sum over the count.
C19_StatsOfTheValuesThatRemain ==
  (BasicStatsCalled /\ NonMissing # {}) =>
    LET r == last.ret
        Leq(a, b) == a[1].num * b[1].den <= b[1].num * a[1].den
    IN  /\ last.ok
        /\ r.count = Cardinality(NonMissing)
        /\ r.mean[1].num = SumSeq(ValuesOf(dropna(table))) /\ r.mean[1].den = r.count
        /\ Leq(r.min, r.mean) /\ Leq(r.mean, r.max)
        /\ Leq(r.min, r.q25) /\ Leq(r.q25, r.median)
        /\ Leq(r.median, r.q75) /\ Leq(r.q75, r.max)
        /\ \A i \in NonMissing : r.min[1].num <= ValueAt(i) /\ ValueAt(i) <= r.max[1].num

RECURSIVE SnapshotsOneByOne(_, _, _)
\* The document after store_kpi_snapshot(d, snapshots[d]) was applied for
\* each of the dates, in ascending order.
SnapshotsOneByOne(memory, snapshots, dates) ==
  IF dates = {} THEN memory
  ELSE LET d == CHOOSE d \in dates : \A e \in dates : d <= e
       IN  SnapshotsOneByOne(store_kpi_snapshot(memory, d, snapshots[d]),
                             snapshots, dates \ {d})

\* Thread t runs store_kpi_snapshots_batch.
InBatch(t) == threads[t].op = "store_kpi_snapshots_batch"

\* C20: store_kpi_snapshots_batch makes exactly one load and exactly one
\* persist whatever the number of dates of the batch, and the document it
\* persists is the one that calling store_kpi_snapshot once per entry, in
\* order, makes of the document it loaded (the time of the last update being
\* that of the persist).
C20_BatchIsOneCycle ==
  [][ \A t \in Threads :
        /\ InBatch(t) => (threads[t].loads <= 1 /\ threads[t].persists <= 1)
        /\ (InBatch(t) /\ threads[t].pc = "load" /\ threads'[t].pc = "open") =>
             /\ threads[t].loads = 0
             /\ threads'[t].memory[1] =
                  SnapshotsOneByOne(file, threads[t].arg, DOMAIN threads[t].arg)
        /\ (InBatch(t) /\ threads[t].pc = "dump" /\ threads'[t].pc = "idle") =>
             /\ threads[t].loads = 1 /\ threads[t].persists = 1
             /\ last'.ok
             /\ [file' EXCEPT !.metadata.last_updated = None]
                  = [threads[t].memory[1] EXCEPT !.metadata.last_updated = None]
             /\ file'.metadata.last_updated = Some(clock) ]_vars

\* A batch of two dates was stored on a store that held a value of one of
\* them.
C20_Witness ==
  /\ last.op = "store_kpi_snapshots_batch" /\ last.ok
  /\ DOMAIN last.arg = {1, 2}
  /\ file.valid
  /\ DOMAIN file.kpi_history = {1, 2}
  /\ DOMAIN file.kpi_history[1] = {"Revenue", "Profit"}
  /\ file.kpi_history[2] = last.arg[2]

\* C20: an empty batch was stored: one load, one persist, nothing added.
C20_WitnessEmpty ==
  /\ last.op = "store_kpi_snapshots_batch" /\ last.ok
  /\ DOMAIN last.arg = {}
  /\ file.valid
  /\ file.kpi_history = <<>>
  /\ file.metadata.last_updated # None

\* C21: persisting is atomic with respect to failures: whatever a mutating
\* operation does, an exception raised while the document is written
\* included, the file afterwards holds either the complete document it held
\* before or the complete document the operation makes; never a truncated or
\* partial one.
C21_PersistAllOrNothing ==
  [][ (file.valid /\ ncalls' = ncalls + 1) =>
        \/ file' = file
        \/ file'.valid /\ last'.ok ]_vars

\* The (date, KPI) pairs a file holds; a file that does not parse holds none.
KpiPairs(f) ==
  IF f.valid /\ "kpi_history" \in DOMAIN f
  THEN {<<d, k>> : d \in DOMAIN f.kpi_history, k \in Kpis} \cap
       {p \in Dates \X Kpis : p[1] \in DOMAIN f.kpi_history
                               /\ p[2] \in DOMAIN f.kpi_history[p[1]]}
  ELSE {}

\* C22: across any sequence of store operations other than clear_old_data,
\* the set of (date, KPI) pairs of kpi_history never shrinks: every date and
\* every KPI key present before an operation is still present after it.
C22_KpiHistoryNeverShrinks ==
  [][ (last'.op # "clear_old_data") => KpiPairs(file) \subseteq KpiPairs(file') ]_vars

\* What holds of the operations that return.
C22_KpiHistoryKeptWhenPersisted ==
  [][ (last'.op # "clear_old_data" /\ file'.valid) =>
        KpiPairs(file) \subseteq KpiPairs(file') ]_vars

\* store_session was called in this step and returned.
SessionStored ==
  /\ ncalls' = ncalls + 1
  /\ last'.op = "store_session" /\ last'.ok

\* C23: store_session is append-only: the session list after the call is
\* the list before the call followed by exactly one new record, every
\* earlier record is unchanged in content and position, total_sessions grows
\* by exactly 1, and kpi_history and insights are unchanged.
C23_StoreSessionAppendsOne ==
  [][ SessionStored =>
        LET m == Len(file.sessions)
        IN  /\ Len(file'.sessions) = m + 1
            /\ SubSeq(file'.sessions, 1, m) = file.sessions
            /\ file'.sessions[m + 1].session_id = last'.ret
            /\ file'.sessions[m + 1].timestamp = clock
            /\ file'.sessions[m + 1].data = JsonValue(last'.arg)
            /\ file'.metadata.total_sessions = file.metadata.total_sessions + 1
            /\ file'.kpi_history = file.kpi_history
            /\ file'.insights = file.insights ]_vars

\* A second session was stored on a store that held a session and a KPI
\* snapshot.
C23_Witness ==
  /\ last.op = "store_session" /\ last.ok
  /\ file.valid
  /\ Len(file.sessions) = 2
  /\ file.kpi_history # <<>>

\* C23: a session was stored on a store that held a session and an insight.
C23_WitnessInsight ==
  /\ last.op = "store_session" /\ last.ok
  /\ file.valid
  /\ Len(file.sessions) = 2
  /\ file.insights # <<>>

\* compare_with_history was called in this step (or the step repeats it).
CompareCalled ==
  /\ last'.op = "compare_with_history"
  /\ file' = file /\ clock' = clock
  /\ file.valid

\* The dates of the store that hold kpi_name.
DatesHolding(kpi_name) ==
  {d \in DOMAIN file.kpi_history : kpi_name \in DOMAIN file.kpi_history[d]}

\* The n most recent of the dates S.
MostRecent(S, n) == {d \in S : Cardinality({e \in S : e > d}) < n}

RECURSIVE SumOfKpi(_, _)
SumOfKpi(kpi_name, S) ==
  IF S = {} THEN 0
  ELSE LET d == CHOOSE d \in S : TRUE
       IN  file.kpi_history[d][kpi_name] + SumOfKpi(kpi_name, S \ {d})

\* The entry of kpi_name averages the n most recent dates that hold it.
AveragesMostRecent(kpi_name, lookback_days) ==
  LET held == DatesHolding(kpi_name)
      n == Min(lookback_days, Cardinality(held))
      entry == last'.ret[kpi_name]
  IN  /\ entry.data_points = n
      /\ n > 0 => entry.historical_avg =
                    Some(Round2(SumOfKpi(kpi_name, MostRecent(held, n)), n))

\* C24: for every lookback_days >= 0 and every KPI of current_kpis,
\* compare_with_history averages exactly the values of the
\* min(lookback_days, c) most recent of the c stored dates that hold the
\* KPI and reports data_points = min(lookback_days, c); the result has
\* exactly one entry per requested KPI.
C24_CompareAveragesMostRecent ==
  [][ (CompareCalled /\ last'.arg[2] >= 0) =>
        /\ last'.ok
        /\ DOMAIN last'.ret = DOMAIN last'.arg[1]
        /\ \A k \in DOMAIN last'.arg[1] : AveragesMostRecent(k, last'.arg[2]) ]_vars

\* What holds for lookback_days >= 1.
C24_CompareAveragesWhenLookbackPositive ==
  [][ (CompareCalled /\ last'.arg[2] >= 1) =>
        /\ last'.ok
        /\ DOMAIN last'.ret = DOMAIN last'.arg[1]
        /\ \A k \in DOMAIN last'.arg[1] : AveragesMostRecent(k, last'.arg[2]) ]_vars

\* The operations that load without writing.
ReadOperations ==
  {"get_recent_sessions", "get_kpi_history", "get_insights",
   "compare_with_history", "get_memory_stats"}

\* A mutating operation was called in this step and completed.
MutationCompleted ==
  /\ ncalls' = ncalls + 1
  /\ last'.op \in Mutators /\ last'.ok

\* C25: the metadata changes on every write and only on writes: each
\* completed mutating operation (store_session, store_kpi_snapshot,
\* store_kpi_snapshots_batch, store_insight, clear_old_data) sets
\* last_updated to a time (that of the operation) and keeps created_at, and
\* the read operations leave the whole file unchanged.
C25_WritesStampReadsLeaveAlone ==
  [][ /\ MutationCompleted =>
           /\ file'.valid
           /\ file'.metadata.last_updated # None
           /\ file'.metadata.last_updated = Some(clock)
           /\ file'.metadata.created_at = file.metadata.created_at
      /\ (last'.op \in ReadOperations) => file' = file ]_vars

\* A mutating operation completed on the day after the store was created.
C25_Witness ==
  /\ last.op \in Mutators /\ last.ok
  /\ file.valid
  /\ file.metadata.created_at = StartOfTime
  /\ file.metadata.last_updated = Some([day |-> 2, sec |-> 0])

\* C25: a read returned from a store that had been written to.
C25_WitnessRead ==
  /\ last.op \in ReadOperations /\ last.ok
  /\ file.valid
  /\ file.metadata.last_updated # None

\* Thread t holds the lock of some store object.
HoldsLock(t) == \E h \in Handles : locks[h] = Some(t)

\* C26: no store operation acquires the store lock while it holds it, and
\* the lock is released on every exit from an operation, a failure included;
\* so under fair scheduling every invoked operation eventually completes or
\* fails, and no thread waits for the lock forever.
C26_LockReleasedOperationsEnd ==
  /\ [](\A t \in Threads :
          /\ threads[t].pc \in {"idle", "acquire"} => ~HoldsLock(t)
          /\ InCycle(t) => locks[threads[t].handle[1]] = Some(t))
  /\ \A t \in Threads : (threads[t].pc # "idle") ~> (threads[t].pc = "idle")

\* An operation failed inside the lock, the lock is free again and another
\* thread is about to acquire it.
C26_Witness ==
  /\ ~last.ok
  /\ last.op \in {"clear_old_data", "store_session", "compare_with_history"}
  /\ locks["h1"] = None
  /\ \E t \in Threads : threads[t].pc = "acquire"

\* C26: a thread waits for the lock another thread holds.
C26_WitnessWaiting ==
  \E t, u \in Threads :
    /\ threads[t].pc = "acquire"
    /\ locks["h1"] = Some(u)
    /\ u # t

\* The mean of the values of the `window` rows that end at row i (of those
\* that exist), as the pair <<sum, count>>.
WindowMean(i, window) ==
  LET lo == IF i - window + 1 > 1 THEN i - window + 1 ELSE 1
      rows == lo..i
  IN  <<Cardinality({j \in rows : table[j].value = 10}) * 10, Cardinality(rows)>>

\* Mean a is strictly greater than mean b.
MeanGreater(a, b) == a[1] * b[2] > b[1] * a[2]

\* C27: detect_trend reports recent_trend = increasing iff the last
\* moving-average value is strictly greater than the moving-average value
\* that is the min(7, length)-th counted back from the end, and decreasing
\* otherwise; for a series of length <= 7 the reference is the first
\* moving-average value, so a 1-row or constant series is decreasing.
C27_RecentTrendAgainstSeventhBack ==
  TrendReturned =>
    LET n == Len(table)
        w == last.arg
        ref == IF n <= 7 THEN 1 ELSE n - 6
        up == MeanGreater(WindowMean(n, w), WindowMean(ref, w))
    IN  /\ last.ret.recent_trend = (IF up THEN "increasing" ELSE "decreasing")
        /\ (n = 1 \/ \A i \in 1..n : table[i].value = table[1].value) =>
             last.ret.recent_trend = "decreasing"

\* A series of 8 rows is increasing against the seventh value from the end
\* while its last moving average is not above its first.
C27_Witness ==
  /\ TrendReturned
  /\ Len(table) = 8
  /\ last.ret.recent_trend = "increasing"
  /\ ~MeanGreater(WindowMean(8, last.arg), WindowMean(1, last.arg))

\* C27: a constant series of several rows is decreasing.
C27_WitnessConstant ==
  /\ TrendReturned
  /\ Len(table) = 3
  /\ \A i \in 1..3 : table[i].value = 10
  /\ last.ret.recent_trend = "decreasing"

\* Thread t takes a step of the constructor it runs.
ConstructorStep(t) ==
  /\ threads[t].pc \in {"new", "initialize", "initialize_dump"}
  /\ threads'[t].pc # threads[t].pc

\* C28: constructing a store never destroys persisted data: when two stores
\* are constructed concurrently on a path that holds no file and one of them
\* completes a mutating operation before the constructor of the other has
\* finished, what that operation wrote is still there afterwards; no step
\* of a constructor changes a file that holds stored data.
C28_ConstructionKeepsStoredData ==
  [][ \A t \in Threads :
        (ConstructorStep(t) /\ file.valid
           /\ (file.sessions # <<>> \/ file.kpi_history # <<>>)) =>
          file' = file ]_vars

\* What holds of a constructor that finds the file at its check.
C28_ConstructionOnExistingFileKeepsIt ==
  [][ \A t \in Threads :
        (ConstructorStep(t) /\ threads[t].pc = "new" /\ file # NoFile) =>
          file' = file ]_vars

\* Thread t leaves the body of clear_old_data(k), k not smaller than the day
\* of the month, having loaded the document.
ClearCutoffOutOfRange(t) ==
  /\ threads[t].op = "clear_old_data"
  /\ threads[t].pc = "load" /\ threads'[t].pc # "load"
  /\ file.valid
  /\ threads[t].arg >= clock.day

\* C29: when clear_old_data fails computing its cutoff (days_to_keep is not
\* smaller than the current day of the month, as with the default of 90),
\* the failure reaches the caller, the file is unchanged and the lock is
\* released, so that later operations on the same store proceed.
C29_CutoffFailureLeavesStoreUsable ==
  [][ \A t \in Threads :
        ClearCutoffOutOfRange(t) =>
          /\ last' = Failed("clear_old_data", threads[t].arg, "ValueError")
          /\ file' = file
          /\ threads'[t].pc = "idle"
          /\ locks'[threads[t].handle[1]] = None ]_vars

\* clear_old_data() with the default failed on a store that holds a session,
\* and another thread is about to take the lock.
C29_Witness ==
  /\ last = Failed("clear_old_data", DEFAULT_DAYS_TO_KEEP, "ValueError")
  /\ file.valid /\ file.sessions # <<>>
  /\ locks["h1"] = None
  /\ \E t \in Threads : threads[t].pc = "acquire"

\* The pairs of consecutive store calls of a MemoryAgent.
AgentCallPairs ==
  { <<"init", "compare_with_history">>,
    <<"compare_with_history", "store_session">>,
    <<"store_session", "store_kpi_snapshots_batch">>,
    <<"store_kpi_snapshots_batch", "store_insight">>,
    <<"store_kpi_snapshots_batch", "get_memory_stats">>,
    <<"store_insight", "store_insight">>,
    <<"store_insight", "get_memory_stats">>,
    <<"get_memory_stats", "compare_with_history">> }

\* The dates of the store that hold values of kpi_name.
StoredDates(kpi_name) ==
  {d \in DOMAIN file.kpi_history : kpi_name \in DOMAIN file.kpi_history[d]}

\* C30: MemoryAgent.execute calls the store in the fixed order
\* compare_with_history, store_session, store_kpi_snapshots_batch,
\* store_insight (once per hypothesis, at most 3), get_memory_stats, so the
\* comparison of a run never includes the snapshots of that run: it counts
\* the dates stored before the run, and on a first run against an empty
\* store every KPI comparison has data_points = 0.
C30_AgentComparesBeforeItStores ==
  [][ /\ (last' # last) => <<last.op, last'.op>> \in AgentCallPairs
      /\ (last' # last /\ last'.op = "compare_with_history") =>
           /\ ~agent.results.session_stored /\ ~agent.results.kpis_stored
           /\ agent.results.insights_stored = <<>>
           /\ \A k \in DOMAIN last'.ret :
                last'.ret[k].data_points =
                  Min(AGENT_LOOKBACK, Cardinality(StoredDates(k)))
      /\ (last' # last /\ last'.op = "get_memory_stats") =>
           /\ agent.results.session_stored /\ agent.results.kpis_stored
           /\ agent.results.insights_stored =
                SubSeq(agent.hypotheses, 1, Min(3, Len(agent.hypotheses)))
      /\ (agent'.runs = 1 /\ agent'.results.historical_comparison # <<>>) =>
           \A k \in DOMAIN agent'.results.historical_comparison :
             /\ agent'.results.historical_comparison[k].data_points = 0
             /\ agent'.results.historical_comparison[k].historical_avg = None ]_vars

\* The first run has returned: its snapshots and three of its four
\* hypotheses are stored, and its comparison counts no data point.
C30_Witness ==
  /\ agent.runs = 1 /\ agent.step = 0
  /\ agent.results.memory_stats # None
  /\ Len(agent.hypotheses) = 4 /\ Len(agent.results.insights_stored) = 3
  /\ DOMAIN file.kpi_history = {1, 2}
  /\ agent.results.historical_comparison["Revenue"].data_points = 0

\* C30: the second run compares with the day the first run stored, not with
\* the days it stores itself.
C30_WitnessSecondRun ==
  /\ agent.runs = 2 /\ agent.step = 0
  /\ agent.results.memory_stats # None
  /\ DOMAIN file.kpi_history = {1, 2}
  /\ agent.results.historical_comparison["Revenue"].data_points = 1

====
